---- MODULE Spec2Model ----
(***************************************************************************)
(* A model of the storage layer of jtbd: the todo store (src/todo/db.py)   *)
(* and the project store (src/buildit/db.py).  Each public method of       *)
(* TodoDB / BuildDB is one action; a table is the set of its rows, the     *)
(* AUTOINCREMENT counter of a table is SQLite's sqlite_sequence entry.     *)
(*                                                                         *)
(* Every method runs in `with sqlite3.connect(...) as conn:`; the          *)
(* connection's context manager commits when the block ends normally and   *)
(* rolls the implicit transaction back when an exception leaves it.        *)
(*                                                                         *)
(* op, arg, ret, exc and pre record the last call: the method, its         *)
(* arguments, its return value, the exception that left it ("none"         *)
(* otherwise) and the tables as they were when it was called.              *)
(***************************************************************************)
EXTENDS Integers, Sequences, FiniteSets

VARIABLES todos, todoSeq, projects, issues, comments, tags, seq, clock,
          op, arg, ret, exc, pre,
          current_view, current_project_id, table, cursor_row, screen,
          posted, backup

vars == <<todos, todoSeq, projects, issues, comments, tags, seq, clock,
          op, arg, ret, exc, pre,
          current_view, current_project_id, table, cursor_row, screen,
          posted, backup>>

todoVars == <<todos, todoSeq>>
buildVars == <<projects, issues, comments, tags, seq>>

\* The state of the running application: the list shown (current_view), the
\* project drilled into, the rows of the main DataTable and its cursor, the
\* screen on top of the screen stack, the messages posted and not yet
\* handled, and the backup file in the home directory.
appVars == <<current_view, current_project_id, table, cursor_row, screen,
             posted, backup>>

\* Python's None / SQL NULL; no string drawn as an input equals it.
NULL == "<NULL>"

\* None where an id is expected (the ids AUTOINCREMENT assigns start at 1).
NoId == 0

\* ------------------------------------------------------------------ bounds
\* Largest value an AUTOINCREMENT counter may reach (caps ids and rows).
MaxId == 2
\* Last tick of the clock (CURRENT_TIMESTAMP has a resolution of one second).
MaxClock == 1

Ids == 1..MaxId

\* No application runs: the methods of the store are called directly.
NoApp ==
    /\ current_view = NULL /\ current_project_id = NoId
    /\ table = <<>> /\ cursor_row = 0 /\ screen = [name |-> "none"]
    /\ posted = <<>> /\ backup = [exists |-> FALSE]

\* ------------------------------------------------------------- helpers
RowIds(T) == {r.id : r \in T}

RowOf(T, id) == CHOOSE r \in T : r.id = id

Has(rec, k) == k \in DOMAIN rec

\* dict.get(k, default)
Get(rec, k, default) == IF k \in DOMAIN rec THEN rec[k] ELSE default

\* The rows of T in rowid order: what SELECT ... FROM t without ORDER BY
\* yields from a table scan.
RECURSIVE ByRowid(_)
ByRowid(T) ==
    IF T = {} THEN <<>>
    ELSE LET lo == CHOOSE r \in T : \A q \in T : r.id <= q.id
         IN  <<lo>> \o ByRowid(T \ {lo})

SeqRange(s) == {s[i] : i \in 1..Len(s)}

\* ============================================================ todo store
\* Arguments of add_todo / update_todo: (title, description, due_date,
\* priority) as the declared types allow.
TodoArgs ==
    { [title |-> "a", description |-> "",  due_date |-> NULL,         priority |-> 1],
      [title |-> "b", description |-> "d", due_date |-> "2024-01-01", priority |-> 2] }

\* INSERT INTO todos (title, description, due_date, priority): id from
\* AUTOINCREMENT, completed DEFAULT 0, created_at DEFAULT CURRENT_TIMESTAMP.
NewTodoRow(id, a, now) ==
    [id |-> id, title |-> a.title, description |-> a.description,
     due_date |-> a.due_date, priority |-> a.priority,
     completed |-> 0, created_at |-> now]

AddTodo(a) ==
    /\ todoSeq < MaxId
    /\ todos' = todos \cup {NewTodoRow(todoSeq + 1, a, clock)}
    /\ todoSeq' = todoSeq + 1
    /\ op' = "add_todo" /\ arg' = a /\ ret' = todoSeq + 1 /\ exc' = "none"
    /\ pre' = todos
    /\ UNCHANGED <<buildVars, clock, appVars>>

\* ORDER BY priority DESC, created_at DESC.
OrderedBefore(r, q) ==
    \/ r.priority > q.priority
    \/ r.priority = q.priority /\ r.created_at >= q.created_at

\* The lists the SELECT of get_todos may return: every row once, in an order
\* that respects ORDER BY; SQL leaves the order of rows with equal keys open.
GetTodosResults(T) ==
    { s \in [1..Cardinality(T) -> T] :
        /\ \A i, j \in 1..Cardinality(T) : i # j => s[i] # s[j]
        /\ \A i, j \in 1..Cardinality(T) : i < j => OrderedBefore(s[i], s[j]) }

GetTodos ==
    /\ \E s \in GetTodosResults(todos) : ret' = s
    /\ op' = "get_todos" /\ arg' = <<>> /\ exc' = "none" /\ pre' = todos
    /\ UNCHANGED <<todoVars, buildVars, clock, appVars>>

\* completed | 1 and completed & 1 on a non-negative integer.
BitOr1(c) == IF c % 2 = 1 THEN c ELSE c + 1
BitAnd1(c) == c % 2

\* A plausible slip: the statement marks the todo completed instead of
\* flipping the flag.
ToggleRowsSetsCompleted(T, id) ==
    { IF r.id = id THEN [r EXCEPT !.completed = 1] ELSE r : r \in T }

\* UPDATE todos SET completed = ((completed | 1) - (completed & 1)) WHERE id = ?
ToggleRows(T, id) ==
    { IF r.id = id
      THEN [r EXCEPT !.completed = BitOr1(r.completed) - BitAnd1(r.completed)]
      ELSE r : r \in T }

ToggleTodo(id) ==
    /\ todos' = ToggleRows(todos, id)
    /\ op' = "toggle_todo" /\ arg' = [todo_id |-> id] /\ ret' = NULL
    /\ exc' = "none" /\ pre' = todos
    /\ UNCHANGED <<todoSeq, buildVars, clock, appVars>>

\* DELETE FROM todos WHERE id = ?
DeleteRows(T, id) == {r \in T : r.id # id}

DeleteTodo(id) ==
    /\ todos' = DeleteRows(todos, id)
    /\ op' = "delete_todo" /\ arg' = [todo_id |-> id] /\ ret' = NULL
    /\ exc' = "none" /\ pre' = todos
    /\ UNCHANGED <<todoSeq, buildVars, clock, appVars>>

\* A plausible slip: the UPDATE has no WHERE clause.
UpdateAllRows(T, id, a) ==
    { [r EXCEPT !.title = a.title, !.description = a.description,
                !.due_date = a.due_date, !.priority = a.priority] : r \in T }

\* A plausible slip: the UPDATE also resets the completed flag.
UpdateRowsResetsCompleted(T, id, a) ==
    { IF r.id = id
      THEN [r EXCEPT !.title = a.title, !.description = a.description,
                     !.due_date = a.due_date, !.priority = a.priority,
                     !.completed = 0]
      ELSE r : r \in T }

\* UPDATE todos SET title = ?, description = ?, due_date = ?, priority = ?
\* WHERE id = ?
UpdateRows(T, id, a) ==
    { IF r.id = id
      THEN [r EXCEPT !.title = a.title, !.description = a.description,
                     !.due_date = a.due_date, !.priority = a.priority]
      ELSE r : r \in T }

UpdateTodo(id, a) ==
    /\ todos' = UpdateRows(todos, id, a)
    /\ op' = "update_todo" /\ arg' = [todo_id |-> id, fields |-> a]
    /\ ret' = NULL /\ exc' = "none" /\ pre' = todos
    /\ UNCHANGED <<todoSeq, buildVars, clock, appVars>>

\* export_todos: one record per row, in rowid order, completed as a bool.
ExportRecord(row) ==
    [id |-> row.id, title |-> row.title, description |-> row.description,
     due_date |-> row.due_date, priority |-> row.priority,
     completed |-> (row.completed # 0), created_at |-> row.created_at]

export_todos(T) ==
    LET rows == ByRowid(T)
    IN  [i \in 1..Len(rows) |-> ExportRecord(rows[i])]

ExportTodos ==
    /\ ret' = export_todos(todos)
    /\ op' = "export_todos" /\ arg' = <<>> /\ exc' = "none" /\ pre' = todos
    /\ UNCHANGED <<todoVars, buildVars, clock, appVars>>

\* The row one record of the document is inserted as: the INSERT names no id
\* (AUTOINCREMENT assigns it); due_date, completed and created_at are read
\* with dict.get, created_at defaulting to the time of the call.
ImportedTodoRow(id, todo, now) ==
    [id |-> id, title |-> todo.title, description |-> todo.description,
     due_date |-> Get(todo, "due_date", NULL), priority |-> todo.priority,
     completed |-> (IF Get(todo, "completed", FALSE) THEN 1 ELSE 0),
     created_at |-> Get(todo, "created_at", now)]

\* The loop of import_todos from record i on: the rows and the counter once
\* the loop ends or an exception leaves it.  todo["title"], todo["description"]
\* and todo["priority"] raise KeyError on a missing key; title is NOT NULL.
RECURSIVE ImportTodoRows(_, _, _, _, _)
ImportTodoRows(T, s, doc, i, now) ==
    IF i > Len(doc) THEN [exc |-> "none", rows |-> T, seq |-> s]
    ELSE LET todo == doc[i]
         IN  IF \E k \in {"title", "description", "priority"} : ~Has(todo, k)
             THEN [exc |-> "KeyError", rows |-> T, seq |-> s]
             ELSE IF todo.title = NULL
             THEN [exc |-> "IntegrityError", rows |-> T, seq |-> s]
             ELSE ImportTodoRows(T \cup {ImportedTodoRow(s + 1, todo, now)},
                                 s + 1, doc, i + 1, now)

\* A plausible slip: the partial inserts are committed when the loop fails.
ImportTodosNoRollback(T, s, doc, now) == ImportTodoRows(T, s, doc, 1, now)

\* import_todos: the loop inside `with sqlite3.connect(...) as conn`, then
\* conn.commit(); an exception leaving the block rolls the inserts back.
ImportTodosTxn(T, s, doc, now) ==
    LET r == ImportTodoRows(T, s, doc, 1, now)
    IN  IF r.exc = "none" THEN r
        ELSE [exc |-> r.exc, rows |-> T, seq |-> s]

\* Longest document imported.
MaxDocLen == 2

\* Records import_todos inserts: one with the required keys only, one with
\* every key of an exported record.
GoodTodoRecords ==
    { [title |-> "a", description |-> "", priority |-> 1],
      [id |-> 2, title |-> "b", description |-> "d", due_date |-> NULL,
       priority |-> 1, completed |-> TRUE, created_at |-> 0] }

\* Records import_todos fails on: a required key is missing, or the title
\* is null.
BadTodoRecords ==
    { [description |-> "", priority |-> 1],
      [title |-> "a", description |-> ""],
      [title |-> NULL, description |-> "", priority |-> 2] }

\* The documents imported: lists of good records, lists that end in a bad
\* record after good ones, and the export of the store itself.
TodoDocs(T) ==
    UNION { [1..n -> GoodTodoRecords] : n \in 0..MaxDocLen }
    \cup { [i \in 1..n |-> [title |-> "a", description |-> "", priority |-> 1]]
              \o <<b>> : n \in 0..(MaxDocLen - 1), b \in BadTodoRecords }
    \cup {export_todos(T)}

ImportTodos(doc) ==
    /\ \E r \in {ImportTodosTxn(todos, todoSeq, doc, clock)} :
           /\ r.seq <= MaxId
           /\ todos' = r.rows
           /\ todoSeq' = r.seq
           /\ exc' = r.exc
    /\ op' = "import_todos" /\ arg' = [doc |-> doc] /\ ret' = NULL
    /\ pre' = todos
    /\ UNCHANGED <<buildVars, clock, appVars>>

\* Time passes.
Tick ==
    /\ clock < MaxClock
    /\ clock' = clock + 1
    /\ UNCHANGED <<todoVars, buildVars, op, arg, ret, exc, pre, appVars>>

InitTodo ==
    /\ todos = {} /\ todoSeq = 0
    /\ projects = {} /\ issues = {} /\ comments = {} /\ tags = {}
    /\ seq = [projects |-> 0, issues |-> 0, comments |-> 0, tags |-> 0]
    /\ clock = 0
    /\ op = "init" /\ arg = <<>> /\ ret = NULL /\ exc = "none" /\ pre = {}
    /\ NoApp

NextTodo ==
    \/ \E a \in TodoArgs : AddTodo(a)
    \/ GetTodos
    \/ \E id \in Ids : ToggleTodo(id)
    \/ \E id \in Ids : DeleteTodo(id)
    \/ \E id \in Ids, a \in TodoArgs : UpdateTodo(id, a)
    \/ ExportTodos
    \/ \E doc \in TodoDocs(todos) : ImportTodos(doc)
    \/ Tick

SpecTodo == InitTodo /\ [][NextTodo]_vars

\* ========================================================= project store
Tables == {"projects", "issues", "comments", "tags"}

\* The columns of each table, as CREATE TABLE declares them.
Cols ==
    [projects |-> {"id", "name", "description", "version", "status",
                   "created_date", "last_updated"},
     issues   |-> {"id", "project_id", "type", "title", "description",
                   "priority", "status", "assigned_to", "created_date",
                   "due_date", "tags"},
     comments |-> {"id", "issue_id", "content", "author", "created_date"},
     tags     |-> {"id", "name", "color"}]

\* The TEXT NOT NULL columns of each table.
NotNullText ==
    [projects |-> {"name", "status"},
     issues   |-> {"type", "title", "status"},
     comments |-> {"content", "author"},
     tags     |-> {"name", "color"}]

\* The project store: its four tables and their AUTOINCREMENT counters.
Store ==
    [projects |-> projects, issues |-> issues, comments |-> comments,
     tags |-> tags, seq |-> seq]

TablesOf(S) == [t \in Tables |-> S[t]]

Max(a, b) == IF a >= b THEN a ELSE b

\* The store S becomes the database's content.
Becomes(S) ==
    /\ projects' = S.projects /\ issues' = S.issues
    /\ comments' = S.comments /\ tags' = S.tags /\ seq' = S.seq

\* add_project(name, description="", version="0.1.0", status="Active")
ProjectArgs ==
    { [name |-> "p", description |-> "", version |-> "0.1.0",
       status |-> "Active"] }

AddProject(a) ==
    /\ seq.projects < MaxId
    /\ projects' = projects \cup
          { [id |-> seq.projects + 1, name |-> a.name,
             description |-> a.description, version |-> a.version,
             status |-> a.status, created_date |-> clock,
             last_updated |-> clock] }
    /\ seq' = [seq EXCEPT !.projects = @ + 1]
    /\ op' = "add_project" /\ arg' = a /\ ret' = seq.projects + 1
    /\ exc' = "none" /\ pre' = Store
    /\ UNCHANGED <<todoVars, issues, comments, tags, clock, appVars>>

\* add_issue(project_id, type, title, ...): tags=None is stored as "[]".
\* No foreign key is enforced, so project_id is any integer.
IssueArgs ==
    { [project_id |-> p, type |-> "Bug", title |-> "i", description |-> "",
       priority |-> 0, status |-> "Open", assigned_to |-> "",
       due_date |-> NULL, tags |-> "[]"] : p \in Ids }

AddIssue(a) ==
    /\ seq.issues < MaxId
    /\ issues' = issues \cup
          { [id |-> seq.issues + 1, project_id |-> a.project_id,
             type |-> a.type, title |-> a.title,
             description |-> a.description, priority |-> a.priority,
             status |-> a.status, assigned_to |-> a.assigned_to,
             created_date |-> clock, due_date |-> a.due_date,
             tags |-> a.tags] }
    /\ seq' = [seq EXCEPT !.issues = @ + 1]
    /\ op' = "add_issue" /\ arg' = a /\ ret' = seq.issues + 1
    /\ exc' = "none" /\ pre' = Store
    /\ UNCHANGED <<todoVars, projects, comments, tags, clock, appVars>>

\* add_comment(issue_id, content, author)
CommentArgs ==
    { [issue_id |-> i, content |-> "c", author |-> "me"] : i \in Ids }

AddComment(a) ==
    /\ seq.comments < MaxId
    /\ comments' = comments \cup
          { [id |-> seq.comments + 1, issue_id |-> a.issue_id,
             content |-> a.content, author |-> a.author,
             created_date |-> clock] }
    /\ seq' = [seq EXCEPT !.comments = @ + 1]
    /\ op' = "add_comment" /\ arg' = a /\ ret' = seq.comments + 1
    /\ exc' = "none" /\ pre' = Store
    /\ UNCHANGED <<todoVars, projects, issues, tags, clock, appVars>>

\* add_tag(name, color="#ffffff"): name is UNIQUE; the IntegrityError of a
\* duplicate name leaves the method and the insert is rolled back.
TagArgs == { [name |-> "t", color |-> "#ffffff"] }

AddTag(a) ==
    /\ seq.tags < MaxId
    /\ IF \E r \in tags : r.name = a.name
       THEN /\ exc' = "IntegrityError" /\ ret' = NULL
            /\ UNCHANGED <<tags, seq>>
       ELSE /\ tags' = tags \cup
                  { [id |-> seq.tags + 1, name |-> a.name, color |-> a.color] }
            /\ seq' = [seq EXCEPT !.tags = @ + 1]
            /\ exc' = "none" /\ ret' = seq.tags + 1
    /\ op' = "add_tag" /\ arg' = a /\ pre' = Store
    /\ UNCHANGED <<todoVars, projects, issues, comments, clock, appVars>>

\* The WHERE clause of get_issues(project_id).
get_issues_rows(I, project_id) == {r \in I : r.project_id = project_id}

\* A plausible slip: the issues are deleted before the comments, whose
\* subquery then finds no issue of the project.
DeleteProjectIssuesFirst(S, project_id) ==
    LET i == {r \in S.issues : r.project_id # project_id}
        c == {r \in S.comments :
                r.issue_id \notin RowIds({q \in i : q.project_id = project_id})}
        p == {r \in S.projects : r.id # project_id}
    IN  [store |-> [S EXCEPT !.comments = c, !.issues = i, !.projects = p],
         ret |-> Cardinality(S.projects) - Cardinality(p) > 0]

\* delete_project: DELETE FROM comments WHERE issue_id IN (SELECT id FROM
\* issues WHERE project_id = ?); DELETE FROM issues WHERE project_id = ?;
\* DELETE FROM projects WHERE id = ?; returns cursor.rowcount > 0.
DeleteProjectStore(S, project_id) ==
    LET c == {r \in S.comments :
                r.issue_id \notin
                    RowIds({q \in S.issues : q.project_id = project_id})}
        i == {r \in S.issues : r.project_id # project_id}
        p == {r \in S.projects : r.id # project_id}
    IN  [store |-> [S EXCEPT !.comments = c, !.issues = i, !.projects = p],
         ret |-> Cardinality(S.projects) - Cardinality(p) > 0]

DeleteProject(project_id) ==
    /\ \E r \in {DeleteProjectStore(Store, project_id)} :
           Becomes(r.store) /\ ret' = r.ret
    /\ op' = "delete_project" /\ arg' = [project_id |-> project_id]
    /\ exc' = "none" /\ pre' = Store
    /\ UNCHANGED <<todoVars, clock, appVars>>

\* A document handed to import_data: a JSON object (its members in items)
\* or another JSON value.
DataGet(data, k) == IF k \in DOMAIN data.items THEN data.items[k] ELSE <<>>

\* export_data: SELECT * of each table, each row as a dict.
export_data(S) ==
    [is_dict |-> TRUE, items |-> [t \in Tables |-> ByRowid(S[t])]]

ExportData ==
    /\ ret' = export_data(Store)
    /\ op' = "export_data" /\ arg' = <<>> /\ exc' = "none" /\ pre' = Store
    /\ UNCHANGED <<todoVars, buildVars, clock, appVars>>

\* A plausible slip: the INSERT of import_data leaves the id to AUTOINCREMENT.
AutoRowid(rec, s) == s + 1

\* The id a record is inserted under: the INSERT names the id column.
ExplicitRowid(rec, s) == rec.id

\* One loop of import_data, from record i of recs on, into table t: the rows
\* and the counter once the loop ends or an exception leaves it.  Building
\* the parameter tuple raises KeyError on a missing key; the INSERT raises
\* IntegrityError on a null in a NOT NULL column, a duplicate id and, in
\* tags, a duplicate name.
RECURSIVE ImportTable(_, _, _, _, _)
ImportTable(T, s, recs, t, i) ==
    IF i > Len(recs) THEN [exc |-> "none", rows |-> T, seq |-> s]
    ELSE LET rec == recs[i]
         IN  IF \E c \in Cols[t] : ~Has(rec, c)
             THEN [exc |-> "KeyError", rows |-> T, seq |-> s]
             ELSE LET row == [c \in Cols[t] |->
                                IF c = "id" THEN ExplicitRowid(rec, s)
                                ELSE rec[c]]
                  IN  IF \/ \E c \in NotNullText[t] : row[c] = NULL
                         \/ row.id \in RowIds(T)
                         \/ t = "tags" /\ \E q \in T : q.name = row.name
                      THEN [exc |-> "IntegrityError", rows |-> T, seq |-> s]
                      ELSE ImportTable(T \cup {row}, Max(s, row.id),
                                       recs, t, i + 1)

\* A plausible slip: the DELETE FROM tags is forgotten.
ClearedButTags(S) ==
    [S EXCEPT !.comments = {}, !.issues = {}, !.projects = {}]

\* DELETE FROM comments / issues / projects / tags (the counters stay).
Cleared(S) ==
    [S EXCEPT !.comments = {}, !.issues = {}, !.projects = {}, !.tags = {}]

\* The body of import_data's with-block: the four deletes, then the four
\* loops in the order projects, issues, comments, tags.  data.get raises
\* AttributeError when the document is not a mapping.
ImportDataRun(S, data) ==
    LET S0 == Cleared(S)
        p  == ImportTable(S0.projects, S0.seq.projects,
                          DataGet(data, "projects"), "projects", 1)
        S1 == [S0 EXCEPT !.projects = p.rows, !.seq.projects = p.seq]
        i  == ImportTable(S0.issues, S0.seq.issues,
                          DataGet(data, "issues"), "issues", 1)
        S2 == [S1 EXCEPT !.issues = i.rows, !.seq.issues = i.seq]
        c  == ImportTable(S0.comments, S0.seq.comments,
                          DataGet(data, "comments"), "comments", 1)
        S3 == [S2 EXCEPT !.comments = c.rows, !.seq.comments = c.seq]
        g  == ImportTable(S0.tags, S0.seq.tags,
                          DataGet(data, "tags"), "tags", 1)
        S4 == [S3 EXCEPT !.tags = g.rows, !.seq.tags = g.seq]
    IN  IF ~data.is_dict THEN [exc |-> "AttributeError", store |-> S0]
        ELSE IF p.exc # "none" THEN [exc |-> p.exc, store |-> S1]
        ELSE IF i.exc # "none" THEN [exc |-> i.exc, store |-> S2]
        ELSE IF c.exc # "none" THEN [exc |-> c.exc, store |-> S3]
        ELSE [exc |-> g.exc, store |-> S4]

\* A plausible slip: what the with-block had written is committed when an
\* exception leaves it.
ImportDataNoRollback(S, data) ==
    LET r == ImportDataRun(S, data)
    IN  [ret |-> (r.exc = "none"), store |-> r.store]

\* import_data: the with-block commits when it ends normally (return True);
\* an exception leaving it rolls the transaction back and is caught by
\* `except Exception: return False`.
ImportDataTxn(S, data) ==
    LET r == ImportDataRun(S, data)
    IN  IF r.exc = "none" THEN [ret |-> TRUE, store |-> r.store]
        ELSE [ret |-> FALSE, store |-> S]

\* Records of a document, as export_data writes them.
TagNames == <<"t", "u", "v", "w">>

GoodRecord(t, n) ==
    CASE t = "projects" ->
           [id |-> n, name |-> "q", description |-> "", version |-> "1.0",
            status |-> "Completed", created_date |-> 0, last_updated |-> 0]
      [] t = "issues" ->
           [id |-> n, project_id |-> n, type |-> "Task", title |-> "j",
            description |-> "", priority |-> 3, status |-> "Done",
            assigned_to |-> "", created_date |-> 0, due_date |-> NULL,
            tags |-> "[]"]
      [] t = "comments" ->
           [id |-> n, issue_id |-> n, content |-> "k", author |-> "u",
            created_date |-> 0]
      [] t = "tags" ->
           [id |-> n, name |-> TagNames[n], color |-> "#000000"]

\* n good records of table t, the largest id first.
GoodList(t, n) == [k \in 1..n |-> GoodRecord(t, n + 1 - k)]

GoodDoc(n) ==
    [is_dict |-> TRUE, items |-> [t \in Tables |-> GoodList(t, n)]]

\* A column import_data reads from a record of table t and that is NOT NULL.
KeyColumn ==
    [projects |-> "name", issues |-> "title", comments |-> "content",
     tags |-> "name"]

\* Records import_data fails on after n good ones: a key is missing, a NOT
\* NULL column is null, the id repeats, (tags) the name repeats.
BadRecords(t, n) ==
    LET g == GoodRecord(t, n + 1)
    IN  { [c \in (DOMAIN g) \ {KeyColumn[t]} |-> g[c]],
          [g EXCEPT ![KeyColumn[t]] = NULL],
          [g EXCEPT !.id = n] }
        \cup (IF t = "tags" THEN {[g EXCEPT !.name = TagNames[n]]} ELSE {})

\* The documents imported: good ones of every length, one without the
\* projects and tags members, one that is not a mapping, good ones with a bad
\* record appended to one member, and the export of the store itself.
BuildDocs(S) ==
    { GoodDoc(n) : n \in 0..MaxDocLen }
    \cup { [is_dict |-> TRUE,
            items |-> [t \in {"issues", "comments"} |-> GoodList(t, 1)]],
           [is_dict |-> FALSE, items |-> <<>>] }
    \cup UNION { { [GoodDoc(MaxDocLen - 1) EXCEPT !.items[t] = @ \o <<b>>] :
                      b \in BadRecords(t, MaxDocLen - 1) } : t \in Tables }
    \cup {export_data(S)}

ImportData(data) ==
    /\ \E r \in {ImportDataTxn(Store, data)} :
           /\ \A t \in Tables : r.store.seq[t] <= MaxId
           /\ Becomes(r.store)
           /\ ret' = r.ret
    /\ op' = "import_data" /\ arg' = [data |-> data]
    /\ exc' = "none" /\ pre' = Store
    /\ UNCHANGED <<todoVars, clock, appVars>>

InitBuild ==
    /\ todos = {} /\ todoSeq = 0
    /\ projects = {} /\ issues = {} /\ comments = {} /\ tags = {}
    /\ seq = [projects |-> 0, issues |-> 0, comments |-> 0, tags |-> 0]
    /\ clock = 0
    /\ op = "init" /\ arg = <<>> /\ ret = NULL /\ exc = "none"
    /\ pre = [projects |-> {}, issues |-> {}, comments |-> {}, tags |-> {},
              seq |-> [projects |-> 0, issues |-> 0, comments |-> 0,
                       tags |-> 0]]
    /\ NoApp

\* Projects, their issues and the comments of those.
NextBuild ==
    \/ \E a \in ProjectArgs : AddProject(a)
    \/ \E a \in IssueArgs : AddIssue(a)
    \/ \E a \in CommentArgs : AddComment(a)
    \/ \E id \in Ids : DeleteProject(id)

SpecBuild == InitBuild /\ [][NextBuild]_vars

\* Export and import, on stores that imports, add_project, add_tag and
\* delete_project build.
NextBuildIO ==
    \/ \E a \in ProjectArgs : AddProject(a)
    \/ \E a \in TagArgs : AddTag(a)
    \/ \E id \in Ids : DeleteProject(id)
    \/ ExportData
    \/ \E data \in BuildDocs(Store) : ImportData(data)

SpecBuildIO == InitBuild /\ [][NextBuildIO]_vars

\* ---------------------------------------------------- project store claims
\* C1: after delete_project(P) no issue of P, no comment of an issue of P and
\* no project row P remains; every other project, issue, comment and tag is
\* as before, and get_issues(Q) selects the same rows for every other Q.
C1_DeleteProjectCascade ==
    (op = "delete_project") =>
        LET P == arg.project_id
            ofP == RowIds({i \in pre.issues : i.project_id = P})
        IN  /\ projects = {r \in pre.projects : r.id # P}
            /\ issues = {r \in pre.issues : r.project_id # P}
            /\ comments = {r \in pre.comments : r.issue_id \notin ofP}
            /\ tags = pre.tags
            /\ \A Q \in Ids \ {P} :
                  get_issues_rows(issues, Q) = get_issues_rows(pre.issues, Q)

\* C1 witness: the deleted project had an issue with a comment, and another
\* project had an issue with a comment too.
C1_Witness ==
    /\ op = "delete_project" /\ ret = TRUE
    /\ \E i \in pre.issues : /\ i.project_id = arg.project_id
                             /\ \E c \in pre.comments : c.issue_id = i.id
    /\ \E q \in pre.projects, i \in pre.issues :
          /\ q.id # arg.project_id /\ i.project_id = q.id
          /\ \E c \in pre.comments : c.issue_id = i.id

\* A document import_data cannot insert: it is not a mapping, or one of its
\* records lacks a column, has a null in a NOT NULL column, repeats an id of
\* its list or (tags) repeats a name.
Faulty(data) ==
    \/ ~data.is_dict
    \/ \E t \in Tables :
          LET recs == DataGet(data, t)
          IN  \E k \in 1..Len(recs) :
                 \/ ~(Cols[t] \subseteq DOMAIN recs[k])
                 \/ \E c \in NotNullText[t] : Has(recs[k], c) /\ recs[k][c] = NULL
                 \/ \E j \in 1..(k - 1) :
                       /\ Has(recs[j], "id") /\ Has(recs[k], "id")
                       /\ recs[j].id = recs[k].id
                 \/ /\ t = "tags"
                    /\ \E j \in 1..(k - 1) :
                          /\ Has(recs[j], "name") /\ Has(recs[k], "name")
                          /\ recs[j].name = recs[k].name

\* C2: import_data raises nothing; of a faulty document it returns False;
\* and whenever it returns False the four tables are as they were.
C2_FailedImportIsAtomic ==
    (op = "import_data") =>
        /\ exc = "none"
        /\ Faulty(arg.data) => (ret = FALSE)
        /\ (ret = FALSE) => (TablesOf(Store) = TablesOf(pre))

\* C2 witness: the store held projects and tags, and the document's projects
\* had been inserted when a later member failed.
C2_Witness ==
    /\ op = "import_data" /\ Faulty(arg.data) /\ arg.data.is_dict
    /\ pre.projects # {} /\ pre.tags # {}
    /\ Len(DataGet(arg.data, "projects")) >= 1
    /\ ~Faulty([arg.data EXCEPT !.items.tags = <<>>])

\* C3: importing the export of the store succeeds and a second export gives
\* the same document, record for record and in the same order.
C3_ExportImportExport ==
    (op = "import_data" /\ arg.data = export_data(pre)) =>
        /\ ret = TRUE
        /\ export_data(Store) = arg.data

\* C3 witness: the round trip of a store with rows in all four tables whose
\* project 1 had been deleted (the ids in use do not start at 1).
C3_Witness ==
    /\ op = "import_data" /\ arg.data = export_data(pre)
    /\ \A t \in Tables : pre[t] # {}
    /\ 1 \notin RowIds(pre.projects)

\* The row a record of a document stands for: its value in every column.
RecordRow(t, rec) == [c \in Cols[t] |-> rec[c]]

\* C4: after a successful import_data(D) each table holds exactly the records
\* of D's member, under the ids D gives, and nothing else.
C4_ImportReplacesAll ==
    (op = "import_data" /\ ret = TRUE) =>
        \A t \in Tables :
            Store[t] = {RecordRow(t, rec) : rec \in SeqRange(DataGet(arg.data, t))}

\* C4 witness: a store with projects and tags was replaced by a document with
\* two records in each member, none of them a row of the store.
C4_Witness ==
    /\ op = "import_data" /\ ret = TRUE
    /\ pre.projects # {} /\ pre.tags # {}
    /\ \A t \in Tables : Len(DataGet(arg.data, t)) = 2
    /\ \A t \in Tables : pre[t] \cap Store[t] = {}

\* ------------------------------------------------------- todo store claims
TodoKeys == {"id", "title", "description", "due_date", "priority",
             "completed", "created_at"}

\* C5: a successful import_todos of a document whose records carry every
\* field leaves a store whose export is that document, ids included (so
\* export, import, export gives the same document twice).
C5_ImportEqualsDocument ==
    (/\ op = "import_todos" /\ exc = "none"
     /\ \A i \in 1..Len(arg.doc) : DOMAIN arg.doc[i] = TodoKeys)
    => export_todos(todos) = arg.doc

\* C6: an import_todos that fails leaves the todo table as it was.
C6_FailedImportLeavesStore ==
    (op = "import_todos" /\ exc # "none") => (todos = pre)

\* C6 witness: the import failed on its second record, the first being one
\* the loop had inserted, into a store that held a row.
C6_Witness ==
    /\ op = "import_todos" /\ exc # "none"
    /\ Len(arg.doc) = 2
    /\ ImportTodoRows({}, 0, <<arg.doc[1]>>, 1, 0).exc = "none"
    /\ pre # {}

\* C7: get_todos returns every row once, by priority descending, and of two
\* rows of equal priority the one added later (the larger id) first.
C7_GetTodosOrder ==
    (op = "get_todos") =>
        /\ Len(ret) = Cardinality(todos)
        /\ SeqRange(ret) = todos
        /\ \A i, j \in 1..Len(ret) : i < j =>
              \/ ret[i].priority > ret[j].priority
              \/ ret[i].priority = ret[j].priority /\ ret[i].id > ret[j].id

\* C8: toggle_todo of an existing id flips completed, changes nothing else,
\* and a second toggle_todo of that id gives back the table as it was.
C8_ToggleFlipsAndRestores ==
    (op = "toggle_todo" /\ arg.todo_id \in RowIds(pre)) =>
        /\ RowIds(todos) = RowIds(pre)
        /\ \A r \in pre :
              LET q == RowOf(todos, r.id)
              IN  IF r.id = arg.todo_id
                  THEN /\ (q.completed # 0) = ~(r.completed # 0)
                       /\ [q EXCEPT !.completed = r.completed] = r
                  ELSE q = r
        /\ ToggleRows(todos, arg.todo_id) = pre

\* C8 witness: a completed todo was toggled back while another row existed.
C8_Witness ==
    /\ op = "toggle_todo" /\ arg.todo_id \in RowIds(pre)
    /\ RowOf(pre, arg.todo_id).completed = 1
    /\ Cardinality(pre) >= 2

\* C9: toggle_todo, update_todo and delete_todo of an id that is not stored
\* raise nothing and leave the table unchanged.
C9_AbsentIdIsNoOp ==
    (/\ op \in {"toggle_todo", "update_todo", "delete_todo"}
     /\ arg.todo_id \notin RowIds(pre))
    => (exc = "none" /\ todos = pre)

\* C9 witness: update_todo of an absent id on a store that holds rows.
C9_Witness ==
    /\ op = "update_todo" /\ arg.todo_id \notin RowIds(pre)
    /\ pre # {}

\* C10: update_todo of an existing id sets title, description, due_date and
\* priority to the arguments and changes nothing else; neither update_todo
\* nor toggle_todo changes the created_at of any row.
C10_UpdateFrame ==
    /\ (op = "update_todo" /\ arg.todo_id \in RowIds(pre)) =>
          /\ RowIds(todos) = RowIds(pre)
          /\ \A r \in pre :
                LET q == RowOf(todos, r.id)
                IN  IF r.id = arg.todo_id
                    THEN /\ q.title = arg.fields.title
                         /\ q.description = arg.fields.description
                         /\ q.due_date = arg.fields.due_date
                         /\ q.priority = arg.fields.priority
                         /\ q.completed = r.completed
                         /\ q.created_at = r.created_at
                    ELSE q = r
    /\ (op \in {"update_todo", "toggle_todo"}) =>
          /\ RowIds(todos) = RowIds(pre)
          /\ \A r \in pre : RowOf(todos, r.id).created_at = r.created_at

\* C10 witness: update_todo changed all four fields of a completed todo
\* created at an earlier tick, while another row existed.
C10_Witness ==
    /\ op = "update_todo" /\ arg.todo_id \in RowIds(pre)
    /\ LET r == RowOf(pre, arg.todo_id)
       IN  /\ r.title # arg.fields.title
           /\ r.description # arg.fields.description
           /\ r.due_date # arg.fields.due_date
           /\ r.priority # arg.fields.priority
           /\ r.completed = 1
           /\ r.created_at < clock
    /\ Cardinality(pre) >= 2

\* ================================================================== text
\* A str as the sequence of its characters, for the strings the searches are
\* applied to.
Chars(s) ==
    CASE s = ""     -> <<>>
      [] s = "a"    -> <<"a">>
      [] s = "b"    -> <<"b">>
      [] s = "A"    -> <<"A">>
      [] s = "B"    -> <<"B">>
      [] s = "_"    -> <<"_">>
      [] s = "%"    -> <<"%">>
      [] s = "ab"   -> <<"a", "b">>
      [] s = "ba"   -> <<"b", "a">>
      [] s = "a_"   -> <<"a", "_">>
      [] s = "Ab"   -> <<"A", "b">>
      [] s = "p"    -> <<"p">>
      [] s = "q"    -> <<"q">>
      [] s = "i"    -> <<"i">>
      [] s = "j"    -> <<"j">>
      [] s = "u"    -> <<"u">>
      [] s = "Bug"  -> <<"B", "u", "g">>
      [] s = "Task" -> <<"T", "a", "s", "k">>
      [] s = " "    -> <<" ">>
      [] s = " a"   -> <<" ", "a">>
      [] s = "x"    -> <<"x">>
      [] s = "0"    -> <<"0">>
      [] s = "3"    -> <<"3">>
      [] s = "5"    -> <<"5">>
      [] s = "6"    -> <<"6">>
      [] s = " 3"   -> <<" ", "3">>
      [] s = "-1"   -> <<"-", "1">>
      [] s = "+5"   -> <<"+", "5">>
      [] s = "2.5"  -> <<"2", ".", "5">>
      [] s = "10"   -> <<"1", "0">>
      [] s = "11"   -> <<"1", "1">>
      [] s = "12"   -> <<"1", "2">>
      [] s = "13"   -> <<"1", "3">>
      [] s = "14"   -> <<"1", "4">>
      [] s = "P"    -> <<"P">>
      [] s = "T"    -> <<"T">>
      [] s = "sk"   -> <<"s", "k">>
      [] s = "Open"      -> <<"O", "p", "e", "n">>
      [] s = "open"      -> <<"o", "p", "e", "n">>
      [] s = "Done"      -> <<"D", "o", "n", "e">>
      [] s = "done"      -> <<"d", "o", "n", "e">>
      [] s = "closed"    -> <<"c", "l", "o", "s", "e", "d">>
      [] s = "Active"    -> <<"A", "c", "t", "i", "v", "e">>
      [] s = "active"    -> <<"a", "c", "t", "i", "v", "e">>
      [] s = "Completed" -> <<"C", "o", "m", "p", "l", "e", "t", "e", "d">>
      [] s = "completed" -> <<"c", "o", "m", "p", "l", "e", "t", "e", "d">>

\* The strings above.
Strings ==
    {"", "a", "b", "A", "B", "_", "%", "ab", "ba", "a_", "Ab", "p", "q", "i",
     "j", "u", "Bug", "Task", " ", " a", "x", "0", "3", "5", "6", " 3", "-1",
     "+5", "2.5", "10", "11", "12", "13", "14", "P", "T", "sk", "Open", "open", "Done", "done", "closed",
     "Active", "active", "Completed", "completed"}

\* The str with the characters cs.
FromChars(cs) == CHOOSE s \in Strings : Chars(s) = cs

\* str.strip(): leading and trailing whitespace removed.
RECURSIVE LStrip(_)
LStrip(cs) ==
    IF cs # <<>> /\ Head(cs) = " " THEN LStrip(Tail(cs)) ELSE cs

RECURSIVE RStrip(_)
RStrip(cs) ==
    IF cs # <<>> /\ cs[Len(cs)] = " "
    THEN RStrip(SubSeq(cs, 1, Len(cs) - 1)) ELSE cs

Strip(s) == FromChars(RStrip(LStrip(Chars(s))))

Digits == <<"0", "1", "2", "3", "4", "5", "6", "7", "8", "9">>

IsDigit(c) == \E d \in 1..10 : Digits[d] = c

DigitValue(c) == (CHOOSE d \in 1..10 : Digits[d] = c) - 1

\* The value of a run of decimal digits.
RECURSIVE DigitsValue(_)
DigitsValue(cs) ==
    IF cs = <<>> THEN 0
    ELSE 10 * DigitsValue(SubSeq(cs, 1, Len(cs) - 1)) + DigitValue(cs[Len(cs)])

\* int(s) of a stripped str: an optional sign and one or more digits;
\* anything else raises ValueError.
IntOf(s) ==
    LET cs == Chars(s)
        signed == cs # <<>> /\ Head(cs) \in {"+", "-"}
        ds == IF signed THEN Tail(cs) ELSE cs
    IN  IF ds = <<>> \/ \E k \in 1..Len(ds) : ~IsDigit(ds[k])
        THEN [ok |-> FALSE, value |-> 0]
        ELSE [ok |-> TRUE,
              value |-> IF signed /\ Head(cs) = "-" THEN 0 - DigitsValue(ds)
                        ELSE DigitsValue(ds)]

\* str.lower() of one character; also the case folding of LIKE (ASCII only).
Lower(c) ==
    CASE c = "A" -> "a"
      [] c = "B" -> "b"
      [] c = "T" -> "t"
      [] c = "P" -> "p"
      [] c = "O" -> "o"
      [] c = "D" -> "d"
      [] c = "C" -> "c"
      [] OTHER   -> c

\* The tail of pattern p from i on matches the tail of text t from j on, as
\* SQLite's LIKE matches: % stands for any run of characters, _ for any one
\* character, a letter for itself in either case.
RECURSIVE LikeAt(_, _, _, _)
LikeAt(p, i, t, j) ==
    IF i > Len(p) THEN j > Len(t)
    ELSE IF p[i] = "%"
         THEN \E k \in j..(Len(t) + 1) : LikeAt(p, i + 1, t, k)
    ELSE IF j > Len(t) THEN FALSE
    ELSE /\ p[i] = "_" \/ Lower(p[i]) = Lower(t[j])
         /\ LikeAt(p, i + 1, t, j + 1)

\* column LIKE pattern; a NULL column matches nothing.
Like(v, p) == v # NULL /\ LikeAt(p, 1, Chars(v), 1)

\* The pattern search_todos binds: f"%{query}%" if query else "%%".
SearchPattern(query) ==
    IF query # "" THEN <<"%">> \o Chars(query) \o <<"%">> ELSE <<"%", "%">>

\* WHERE title LIKE ? OR description LIKE ?
SearchRows(T, query) ==
    {r \in T : \/ Like(r.title, SearchPattern(query))
               \/ Like(r.description, SearchPattern(query))}

\* The lists the SELECT of search_todos may return: the selected rows, once
\* each, in an order that respects ORDER BY priority DESC, created_at DESC.
SearchTodosResults(T, query) == GetTodosResults(SearchRows(T, query))

Queries == {"", "a", "b", "B", "_", "%", "ab", "ba"}

SearchTodos(query) ==
    /\ \E s \in SearchTodosResults(todos, query) : ret' = s
    /\ op' = "search_todos" /\ arg' = [query |-> query]
    /\ exc' = "none" /\ pre' = todos
    /\ UNCHANGED <<todoVars, buildVars, clock, appVars>>

\* Todos whose texts the queries tell apart.
SearchTodoArgs ==
    { [title |-> "Ab", description |-> "",   due_date |-> NULL, priority |-> 1],
      [title |-> "b",  description |-> "a_", due_date |-> NULL, priority |-> 2],
      [title |-> "",   description |-> "",   due_date |-> NULL, priority |-> 1] }

NextSearch ==
    \/ \E a \in SearchTodoArgs : AddTodo(a)
    \/ \E id \in Ids : DeleteTodo(id)
    \/ \E q \in Queries : SearchTodos(q)
    \/ Tick

SpecSearch == InitTodo /\ [][NextSearch]_vars

\* q occurs in t (both sequences of characters), letters compared in either
\* case.
ContainsCI(t, q) ==
    \E k \in 0..(Len(t) - Len(q)) :
        \A n \in 1..Len(q) : Lower(t[k + n]) = Lower(q[n])

\* s is t with some entries left out.
RECURSIVE IsSubSeq(_, _)
IsSubSeq(s, t) ==
    IF s = <<>> THEN TRUE
    ELSE IF t = <<>> THEN FALSE
    ELSE IF Head(s) = Head(t) THEN IsSubSeq(Tail(s), Tail(t))
    ELSE IsSubSeq(s, Tail(t))

\* C11: search_todos("") returns every todo; search_todos(q), q non-empty,
\* returns exactly the todos whose title or description contains q; both in
\* the relative order of a list get_todos may return.
C11_SearchTodos ==
    (op = "search_todos") =>
        /\ SeqRange(ret) =
              IF arg.query = "" THEN todos
              ELSE {r \in todos :
                      \/ ContainsCI(Chars(r.title), Chars(arg.query))
                      \/ ContainsCI(Chars(r.description), Chars(arg.query))}
        /\ \E s \in GetTodosResults(todos) : IsSubSeq(ret, s)

\* ============================================================== TodoApp
\* The todo application (src/todo/app.py).  One action per handler; a handler
\* runs to completion, and a message a modal posts is the next thing handled.
\* table holds the rows of #todo-table as refresh_todos added them, and
\* cursor_row is DataTable.cursor_row: clear() puts it back to 0.

\* The record of the handler that ran: its name, its inputs and the severity
\* of the notification it raised (NULL when it raised none).
Handled(name, a, severity) ==
    /\ op' = name /\ arg' = a /\ ret' = severity /\ exc' = "none"
    /\ UNCHANGED pre

MainScreen == [name |-> "main"]

\* A plausible slip: the cursor is put back without looking at the row count.
RestoredCursorUnchecked(current_row, n) == current_row

\* The cursor after a refresh of n rows: back on current_row when that row
\* exists, on row 0 otherwise (and 0 after clear() when there is no row).
RestoredCursor(current_row, n) ==
    IF n > 0 /\ current_row < n THEN current_row ELSE 0

\* refresh_todos on the table T of todos.
RefreshTodos(T) ==
    \E s \in GetTodosResults(T) :
        /\ table' = s
        /\ cursor_row' = RestoredCursor(cursor_row, Len(s))

\* int(table.get_cell_at(Coordinate(table.cursor_row, 0)))
CursorId == table[cursor_row + 1].id

\* What the user typed into the inputs of the add and edit forms.
FormInputs ==
    { [title |-> " a", description |-> "", due_date |-> "", priority |-> p] :
        p \in {"", "5", "6", "-1", "x"} }
    \cup { [title |-> t, description |-> "", due_date |-> "",
            priority |-> "5"] : t \in {"", " "} }

\* A plausible slip: the range check of the priority is left out.
SubmitFormNoRange(f) ==
    LET title == Strip(f.title)
        priority_str == IF Strip(f.priority) # "" THEN Strip(f.priority)
                        ELSE "0"
        priority == IntOf(priority_str)
    IN  IF title = "" THEN [ok |-> FALSE]
        ELSE IF ~priority.ok THEN [ok |-> FALSE]
        ELSE [ok |-> TRUE,
              todo_data |-> [title |-> title,
                             description |-> Strip(f.description),
                             due_date |-> IF Strip(f.due_date) # ""
                                          THEN Strip(f.due_date) ELSE NULL,
                             priority |-> priority.value]]

\* _submit_form of AddTodoModal and of ViewEditTodoModal up to post_message:
\* the todo_data to post, or the early return after a notification.
SubmitForm(f) ==
    LET title == Strip(f.title)
        priority_str == IF Strip(f.priority) # "" THEN Strip(f.priority)
                        ELSE "0"
        priority == IntOf(priority_str)
    IN  IF title = "" THEN [ok |-> FALSE]
        ELSE IF ~priority.ok THEN [ok |-> FALSE]
        ELSE IF ~(0 <= priority.value /\ priority.value <= 5)
             THEN [ok |-> FALSE]
        ELSE [ok |-> TRUE,
              todo_data |-> [title |-> title,
                             description |-> Strip(f.description),
                             due_date |-> IF Strip(f.due_date) # ""
                                          THEN Strip(f.due_date) ELSE NULL,
                             priority |-> priority.value]]

TodoAppIdle ==
    current_view = "todos" /\ screen = MainScreen /\ posted = <<>>

action_add_todo ==
    /\ TodoAppIdle
    /\ todoSeq < MaxId
    /\ screen' = [name |-> "AddTodoModal"]
    /\ Handled("action_add_todo", <<>>, NULL)
    /\ UNCHANGED <<todoVars, buildVars, clock, current_view,
                   current_project_id, table, cursor_row, posted, backup>>

\* action_cancel of a modal: pop_screen.
TodoModalCancel ==
    /\ current_view = "todos" /\ posted = <<>>
    /\ screen.name \in {"AddTodoModal", "ViewEditTodoModal"}
    /\ screen' = MainScreen
    /\ Handled("action_cancel", <<>>, NULL)
    /\ UNCHANGED <<todoVars, buildVars, clock, current_view,
                   current_project_id, table, cursor_row, posted, backup>>

AddTodoModalSubmit(f) ==
    /\ current_view = "todos" /\ posted = <<>>
    /\ screen.name = "AddTodoModal"
    /\ \E r \in {SubmitForm(f)} :
          IF r.ok
          THEN /\ posted' = <<[type |-> "AddTodoModal.Submitted",
                               todo_data |-> r.todo_data]>>
               /\ screen' = MainScreen
               /\ Handled("AddTodoModal._submit_form", f, NULL)
          ELSE /\ UNCHANGED <<posted, screen>>
               /\ Handled("AddTodoModal._submit_form", f, "error")
    /\ UNCHANGED <<todoVars, buildVars, clock, current_view,
                   current_project_id, table, cursor_row, backup>>

\* on_add_todo_modal_submitted: TodoApp.add_todo, that is db.add_todo and
\* refresh_todos.
on_add_todo_modal_submitted ==
    /\ posted # <<>> /\ Head(posted).type = "AddTodoModal.Submitted"
    /\ todos' = todos \cup {NewTodoRow(todoSeq + 1, Head(posted).todo_data,
                                       clock)}
    /\ todoSeq' = todoSeq + 1
    /\ RefreshTodos(todos')
    /\ posted' = Tail(posted)
    /\ Handled("on_add_todo_modal_submitted", Head(posted).todo_data,
               "information")
    /\ UNCHANGED <<buildVars, clock, current_view, current_project_id,
                   screen, backup>>

action_toggle_todo ==
    /\ TodoAppIdle
    /\ cursor_row < Len(table)
    /\ todos' = ToggleRows(todos, CursorId)
    /\ RefreshTodos(todos')
    /\ Handled("action_toggle_todo", [todo_id |-> CursorId], "information")
    /\ UNCHANGED <<todoSeq, buildVars, clock, current_view,
                   current_project_id, screen, posted, backup>>

action_delete_todo ==
    /\ TodoAppIdle
    /\ cursor_row < Len(table)
    /\ todos' = DeleteRows(todos, CursorId)
    /\ RefreshTodos(todos')
    /\ Handled("action_delete_todo", [todo_id |-> CursorId], "information")
    /\ UNCHANGED <<todoSeq, buildVars, clock, current_view,
                   current_project_id, screen, posted, backup>>

action_view_edit_todo ==
    /\ TodoAppIdle
    /\ cursor_row < Len(table)
    /\ screen' = [name |-> "ViewEditTodoModal", todo_id |-> CursorId]
    /\ Handled("action_view_edit_todo", [todo_id |-> CursorId], NULL)
    /\ UNCHANGED <<todoVars, buildVars, clock, current_view,
                   current_project_id, table, cursor_row, posted, backup>>

ViewEditTodoModalSubmit(f) ==
    /\ current_view = "todos" /\ posted = <<>>
    /\ screen.name = "ViewEditTodoModal"
    /\ \E r \in {SubmitForm(f)} :
          IF r.ok
          THEN /\ posted' = <<[type |-> "ViewEditTodoModal.TodoUpdated",
                               todo_id |-> screen.todo_id,
                               todo_data |-> r.todo_data]>>
               /\ screen' = MainScreen
               /\ Handled("ViewEditTodoModal._submit_form", f, NULL)
          ELSE /\ UNCHANGED <<posted, screen>>
               /\ Handled("ViewEditTodoModal._submit_form", f, "error")
    /\ UNCHANGED <<todoVars, buildVars, clock, current_view,
                   current_project_id, table, cursor_row, backup>>

\* The text refresh_todos puts into the priority cell of a row: the stars
\* (written * here, one code point each) inside a colour markup.
PriorityText(priority) ==
    LET colour == IF priority >= 4 THEN <<"r", "e", "d">>
                  ELSE IF priority >= 2 THEN <<"y", "e", "l", "l", "o", "w">>
                  ELSE <<"g", "r", "e", "e", "n">>
    IN  <<"[">> \o colour \o <<"]">> \o [k \in 1..priority |-> "*"]
            \o <<"[", "/", "]">>

\* The text of the due date cell: empty without a due date, else the date
\* inside a markup, red bold when it is past and yellow when not, or the
\* bare text when it is no date.
DueStyles == {"red bold", "yellow", "plain"}

DueDateText(due_date, style) ==
    IF due_date = NULL \/ due_date = "" THEN ""
    ELSE IF style = "plain" THEN due_date
    ELSE "[" \o style \o "]" \o due_date \o "[/]"

\* _get_todo_data(row): the title, description and due date cells of the
\* row as refresh_todos added them, and the length of the priority cell.
get_todo_data(row, style) ==
    [title |-> table[row + 1].title,
     description |-> IF table[row + 1].description = NULL THEN ""
                     ELSE table[row + 1].description,
     due_date |-> DueDateText(table[row + 1].due_date, style),
     priority |-> Len(RStrip(LStrip(PriorityText(table[row + 1].priority))))]

\* str(n) of a natural number.
RECURSIVE NatChars(_)
NatChars(n) ==
    IF n < 10 THEN <<Digits[n + 1]>>
    ELSE NatChars(n \div 10) \o <<Digits[(n % 10) + 1]>>

\* The values ViewEditTodoModal.compose gives the four inputs.
PrefilledInputs(todo_data) ==
    [title |-> todo_data.title, description |-> todo_data.description,
     due_date |-> todo_data.due_date,
     priority |-> FromChars(NatChars(todo_data.priority))]

\* on_view_edit_todo_modal_todo_updated: db.update_todo and refresh_todos.
on_view_edit_todo_modal_todo_updated ==
    /\ posted # <<>> /\ Head(posted).type = "ViewEditTodoModal.TodoUpdated"
    /\ todos' = UpdateRows(todos, Head(posted).todo_id, Head(posted).todo_data)
    /\ RefreshTodos(todos')
    /\ posted' = Tail(posted)
    /\ Handled("on_view_edit_todo_modal_todo_updated",
               [todo_id |-> Head(posted).todo_id,
                fields |-> Head(posted).todo_data], "information")
    /\ UNCHANGED <<todoSeq, buildVars, clock, current_view,
                   current_project_id, screen, backup>>

\* action_import_todos: without the file a notification and return; else
\* json.load, db.import_todos and refresh_todos, an exception ending the
\* handler with a notification.
action_import_todos ==
    /\ TodoAppIdle
    /\ IF ~backup.exists
       THEN /\ UNCHANGED <<todoVars, table, cursor_row>>
            /\ Handled("action_import_todos", <<>>, "error")
       ELSE \E r \in {ImportTodosTxn(todos, todoSeq, backup.data, clock)} :
              /\ r.seq <= MaxId
              /\ todos' = r.rows /\ todoSeq' = r.seq
              /\ IF r.exc = "none"
                 THEN /\ RefreshTodos(todos')
                      /\ Handled("action_import_todos",
                                 [doc |-> backup.data], "information")
                 ELSE /\ UNCHANGED <<table, cursor_row>>
                      /\ Handled("action_import_todos",
                                 [doc |-> backup.data], "error")
    /\ UNCHANGED <<buildVars, clock, current_view, current_project_id,
                   screen, posted, backup>>

\* Documents a user may leave at ~/todos_backup.json.
BackupTodoDocs ==
    { <<[title |-> "", description |-> "", priority |-> 9]>>,
      <<[title |-> "b", description |-> ""]>> }

\* The file ~/todos_backup.json is written from outside the application.
WriteTodosBackup(doc) ==
    /\ current_view = "todos"
    /\ backup' = [exists |-> TRUE, data |-> doc]
    /\ Handled("(backup file written)", <<>>, NULL)
    /\ UNCHANGED <<todoVars, buildVars, clock, current_view,
                   current_project_id, table, cursor_row, screen, posted>>

\* action_cursor_down: one row down unless the cursor is on the last row.
CursorDown(row, n) == IF row < n - 1 THEN row + 1 ELSE row

\* action_cursor_up: one row up unless the cursor is on the first row.
CursorUp(row, n) == IF row > 0 THEN row - 1 ELSE row

\* action_cursor_home / action_cursor_end: nothing on an empty table.
CursorHome(row, n) == IF n > 0 THEN 0 ELSE row

CursorEnd(row, n) == IF n > 0 THEN n - 1 ELSE row

TodoCursor(name, row) ==
    /\ TodoAppIdle
    /\ cursor_row' = row
    /\ Handled(name, <<>>, NULL)
    /\ UNCHANGED <<todoVars, buildVars, clock, current_view,
                   current_project_id, table, screen, posted, backup>>

todo_action_cursor_up ==
    TodoCursor("action_cursor_up", CursorUp(cursor_row, Len(table)))

todo_action_cursor_down ==
    TodoCursor("action_cursor_down", CursorDown(cursor_row, Len(table)))

action_cursor_home ==
    TodoCursor("action_cursor_home", CursorHome(cursor_row, Len(table)))

action_cursor_end ==
    TodoCursor("action_cursor_end", CursorEnd(cursor_row, Len(table)))

\* TodoApp.__init__ and on_mount on a new store, no backup file yet.
InitTodoApp ==
    /\ todos = {} /\ todoSeq = 0
    /\ projects = {} /\ issues = {} /\ comments = {} /\ tags = {}
    /\ seq = [projects |-> 0, issues |-> 0, comments |-> 0, tags |-> 0]
    /\ clock = 0
    /\ op = "init" /\ arg = <<>> /\ ret = NULL /\ exc = "none" /\ pre = {}
    /\ current_view = "todos" /\ current_project_id = NoId
    /\ table = <<>> /\ cursor_row = 0 /\ screen = MainScreen
    /\ posted = <<>> /\ backup = [exists |-> FALSE]

NextTodoApp ==
    \/ action_add_todo
    \/ TodoModalCancel
    \/ \E f \in FormInputs : AddTodoModalSubmit(f)
    \/ on_add_todo_modal_submitted
    \/ action_toggle_todo
    \/ action_delete_todo
    \/ action_view_edit_todo
    \/ \E f \in FormInputs : ViewEditTodoModalSubmit(f)
    \/ on_view_edit_todo_modal_todo_updated
    \/ action_import_todos
    \/ \E doc \in BackupTodoDocs : WriteTodosBackup(doc)
    \/ todo_action_cursor_up
    \/ todo_action_cursor_down
    \/ action_cursor_home
    \/ action_cursor_end

SpecTodoApp == InitTodoApp /\ [][NextTodoApp]_vars

\* The edit form of the selected todo, submitted as it was opened or with
\* what the user typed.
NextTodoEdit ==
    \/ action_add_todo
    \/ \E f \in FormInputs : AddTodoModalSubmit(f)
    \/ on_add_todo_modal_submitted
    \/ action_view_edit_todo
    \/ \E style \in DueStyles :
          ViewEditTodoModalSubmit(
              PrefilledInputs(get_todo_data(cursor_row, style)))
    \/ \E f \in FormInputs : ViewEditTodoModalSubmit(f)
    \/ on_view_edit_todo_modal_todo_updated
    \/ TodoModalCancel
    \/ todo_action_cursor_down

SpecTodoEdit == InitTodoApp /\ [][NextTodoEdit]_vars

\* ============================================================= BuildApp
\* The project tracker (src/buildit/app.py).  table holds the rows of
\* #main-table as setup_projects_view / setup_issues_view added them.

\* The lists a SELECT may return from the rows T under an ORDER BY that puts
\* r before q only if Before(r, q): every row once, rows with equal keys in
\* any order.
Orderings(T, Before(_, _)) ==
    { s \in [1..Cardinality(T) -> T] :
        /\ \A i, j \in 1..Cardinality(T) : i # j => s[i] # s[j]
        /\ \A i, j \in 1..Cardinality(T) : i < j => Before(s[i], s[j]) }

\* get_projects: SELECT * FROM projects ORDER BY last_updated DESC.
ProjectBefore(r, q) == r.last_updated >= q.last_updated

GetProjectsResults(P) == Orderings(P, ProjectBefore)

\* get_issues(project_id): ORDER BY priority DESC, created_date DESC, of one
\* project or, with project_id None, of all.
IssueBefore(r, q) ==
    \/ r.priority > q.priority
    \/ r.priority = q.priority /\ r.created_date >= q.created_date

GetIssuesResults(I, project_id) ==
    Orderings(IF project_id = NoId THEN I ELSE get_issues_rows(I, project_id),
              IssueBefore)

\* A plausible slip: the UPDATE leaves last_updated alone.
UpdateProjectKeepsDate(S, project_id, kw, now) ==
    IF DOMAIN kw \cap {"name", "description", "version", "status"} = {}
    THEN [store |-> S, ret |-> FALSE]
    ELSE [store |->
            [S EXCEPT !.projects =
               { IF r.id = project_id
                 THEN [c \in DOMAIN r |->
                         IF c \in DOMAIN kw THEN kw[c] ELSE r[c]]
                 ELSE r : r \in S.projects }],
          ret |-> project_id \in RowIds(S.projects)]

\* update_project(project_id, name, description, version, status): kw holds
\* the arguments that are not None.  Without any, False; else the UPDATE of
\* those columns and of last_updated, and rowcount > 0.
UpdateProjectStore(S, project_id, kw, now) ==
    IF DOMAIN kw \cap {"name", "description", "version", "status"} = {}
    THEN [store |-> S, ret |-> FALSE]
    ELSE [store |->
            [S EXCEPT !.projects =
               { IF r.id = project_id
                 THEN [c \in DOMAIN r |->
                         IF c = "last_updated" THEN now
                         ELSE IF c \in DOMAIN kw THEN kw[c] ELSE r[c]]
                 ELSE r : r \in S.projects }],
          ret |-> project_id \in RowIds(S.projects)]

\* json.dumps of a list of tags.
JsonDumps(v) ==
    CASE v = <<>>    -> "[]"
      [] v = <<"t">> -> "[\"t\"]"

valid_fields ==
    {"type", "title", "description", "priority", "status", "assigned_to",
     "due_date", "tags"}

\* A plausible slip: every keyword argument that names a column is written.
UpdateIssueAnyField(S, issue_id, kwargs) ==
    IF DOMAIN kwargs = {}
    THEN [store |-> S, ret |-> FALSE]
    ELSE [store |->
            [S EXCEPT !.issues =
               { IF r.id = issue_id
                 THEN [c \in DOMAIN r |->
                         IF c \in DOMAIN kwargs
                         THEN (IF c = "tags" THEN JsonDumps(kwargs[c])
                               ELSE kwargs[c])
                         ELSE r[c]]
                 ELSE r : r \in S.issues }],
          ret |-> issue_id \in RowIds(S.issues)]

\* update_issue(issue_id, **kwargs): the keyword arguments in valid_fields
\* are written (tags through json.dumps); without any, False.
UpdateIssueStore(S, issue_id, kwargs) ==
    IF DOMAIN kwargs \cap valid_fields = {}
    THEN [store |-> S, ret |-> FALSE]
    ELSE [store |->
            [S EXCEPT !.issues =
               { IF r.id = issue_id
                 THEN [c \in DOMAIN r |->
                         IF c \in DOMAIN kwargs \cap valid_fields
                         THEN (IF c = "tags" THEN JsonDumps(kwargs[c])
                               ELSE kwargs[c])
                         ELSE r[c]]
                 ELSE r : r \in S.issues }],
          ret |-> issue_id \in RowIds(S.issues)]

\* A plausible slip: only the issue row is deleted.
DeleteIssueKeepsComments(S, issue_id) ==
    [store |-> [S EXCEPT !.issues = {r \in @ : r.id # issue_id}],
     ret |-> issue_id \in RowIds(S.issues)]

\* delete_issue: DELETE FROM comments WHERE issue_id = ?; DELETE FROM issues
\* WHERE id = ?; returns rowcount > 0.
DeleteIssueStore(S, issue_id) ==
    [store |-> [S EXCEPT !.comments = {r \in @ : r.issue_id # issue_id},
                         !.issues = {r \in @ : r.id # issue_id}],
     ret |-> issue_id \in RowIds(S.issues)]

\* add_project / add_issue as INSERTs into the store.
AddProjectStore(S, a, now) ==
    [S EXCEPT !.projects = @ \cup
                { [id |-> S.seq.projects + 1, name |-> a.name,
                   description |-> a.description, version |-> a.version,
                   status |-> a.status, created_date |-> now,
                   last_updated |-> now] },
              !.seq.projects = @ + 1]

AddIssueStore(S, a, now) ==
    [S EXCEPT !.issues = @ \cup
                { [id |-> S.seq.issues + 1, project_id |-> a.project_id,
                   type |-> a.type, title |-> a.title,
                   description |-> a.description, priority |-> a.priority,
                   status |-> a.status, assigned_to |-> a.assigned_to,
                   created_date |-> now, due_date |-> a.due_date,
                   tags |-> IF a.tags # <<>> THEN JsonDumps(a.tags)
                            ELSE "[]"] },
              !.seq.issues = @ + 1]

\* setup_projects_view / setup_issues_view on the store S: the table filled
\* from get_projects() or get_issues(project_id), the cursor restored.
SetupView(S, view, project_id) ==
    \E s \in (IF view = "projects" THEN GetProjectsResults(S.projects)
              ELSE GetIssuesResults(S.issues, project_id)) :
        /\ table' = s
        /\ cursor_row' = RestoredCursor(cursor_row, Len(s))

BuildAppIdle ==
    current_view \in {"projects", "issues"} /\ screen = MainScreen
    /\ posted = <<>>

\* A plausible slip: drill-in takes the project of the first row.
DrillInFirstRow == [view |-> "issues", project_id |-> table[1].id]

\* Drill-in: current_project_id = int(get_cell_at(Coordinate(cursor_row, 0)))
\* and current_view = "issues".
DrillIn == [view |-> "issues", project_id |-> CursorId]

\* A plausible slip: drill-out forgets to clear current_project_id.
DrillOutKeepsId == [view |-> "projects", project_id |-> current_project_id]

\* Drill-out: current_view = "projects" and current_project_id = None.
DrillOut == [view |-> "projects", project_id |-> NoId]

\* action_switch_view: from the projects to the issues of the project under
\* the cursor (get_cell_at raises on an empty table), and back.
action_switch_view ==
    /\ BuildAppIdle
    /\ IF current_view = "projects"
       THEN IF cursor_row < Len(table)
            THEN /\ current_project_id' = DrillIn.project_id
                 /\ current_view' = DrillIn.view
                 /\ SetupView(Store, DrillIn.view, DrillIn.project_id)
                 /\ Handled("action_switch_view", <<>>, "information")
            ELSE /\ UNCHANGED <<current_project_id, current_view, table,
                                cursor_row>>
                 /\ Handled("action_switch_view", <<>>, "error")
       ELSE /\ current_view' = DrillOut.view
            /\ current_project_id' = DrillOut.project_id
            /\ SetupView(Store, DrillOut.view, DrillOut.project_id)
            /\ Handled("action_switch_view", <<>>, "information")
    /\ UNCHANGED <<todoVars, buildVars, clock, screen, posted, backup>>

action_add_project ==
    /\ BuildAppIdle
    /\ seq.projects < MaxId
    /\ IF current_view # "projects"
       THEN UNCHANGED screen /\ Handled("action_add_project", <<>>, "error")
       ELSE /\ screen' = [name |-> "AddProjectModal"]
            /\ Handled("action_add_project", <<>>, NULL)
    /\ UNCHANGED <<todoVars, buildVars, clock, current_view,
                   current_project_id, table, cursor_row, posted, backup>>

\* What the user entered in the add-project and add-issue forms.
ProjectFormInputs ==
    { [name |-> n, description |-> "", version |-> "", status |-> "Active"] :
        n \in {"", "p"} }

IssueFormInputs ==
    { [type |-> "Task", title |-> t, description |-> "", due_date |-> "",
       priority |-> p, assigned_to |-> "", tags |-> <<>>] :
        t \in {"", "i"}, p \in {"Low"} }

priority_map == [Low |-> 1, Medium |-> 3, High |-> 5]

AddProjectModalSubmit(f) ==
    /\ screen.name = "AddProjectModal" /\ posted = <<>>
    /\ IF Strip(f.name) = ""
       THEN /\ UNCHANGED <<posted, screen>>
            /\ Handled("AddProjectModal._submit_form", f, "error")
       ELSE /\ posted' =
                 <<[type |-> "AddProjectModal.Submitted",
                    project_data |->
                       [name |-> Strip(f.name),
                        description |-> Strip(f.description),
                        version |-> IF Strip(f.version) # ""
                                    THEN Strip(f.version) ELSE "0.1.0",
                        status |-> f.status]]>>
            /\ screen' = MainScreen
            /\ Handled("AddProjectModal._submit_form", f, NULL)
    /\ UNCHANGED <<todoVars, buildVars, clock, current_view,
                   current_project_id, table, cursor_row, backup>>

on_add_project_modal_submitted ==
    /\ posted # <<>> /\ Head(posted).type = "AddProjectModal.Submitted"
    /\ Becomes(AddProjectStore(Store, Head(posted).project_data, clock))
    /\ SetupView(AddProjectStore(Store, Head(posted).project_data, clock),
                 "projects", NoId)
    /\ posted' = Tail(posted)
    /\ Handled("on_add_project_modal_submitted", Head(posted).project_data,
               "information")
    /\ UNCHANGED <<todoVars, clock, current_view, current_project_id, screen,
                   backup>>

action_add_issue ==
    /\ BuildAppIdle
    /\ seq.issues < MaxId
    /\ IF current_view # "issues" \/ current_project_id = NoId
       THEN UNCHANGED screen /\ Handled("action_add_issue", <<>>, "error")
       ELSE /\ screen' = [name |-> "AddIssueModal",
                          project_id |-> current_project_id]
            /\ Handled("action_add_issue", <<>>, NULL)
    /\ UNCHANGED <<todoVars, buildVars, clock, current_view,
                   current_project_id, table, cursor_row, posted, backup>>

AddIssueModalSubmit(f) ==
    /\ screen.name = "AddIssueModal" /\ posted = <<>>
    /\ IF Strip(f.title) = ""
       THEN /\ UNCHANGED <<posted, screen>>
            /\ Handled("AddIssueModal._submit_form", f, "error")
       ELSE /\ posted' =
                 <<[type |-> "AddIssueModal.Submitted",
                    issue_data |->
                       [project_id |-> screen.project_id, type |-> f.type,
                        title |-> Strip(f.title),
                        description |-> Strip(f.description),
                        due_date |-> IF Strip(f.due_date) # ""
                                     THEN Strip(f.due_date) ELSE NULL,
                        priority |-> priority_map[f.priority],
                        assigned_to |-> Strip(f.assigned_to),
                        tags |-> f.tags]]>>
            /\ screen' = MainScreen
            /\ Handled("AddIssueModal._submit_form", f, NULL)
    /\ UNCHANGED <<todoVars, buildVars, clock, current_view,
                   current_project_id, table, cursor_row, backup>>

\* on_add_issue_modal_submitted: db.add_issue(..., "Open", ...) and
\* setup_issues_view.
on_add_issue_modal_submitted ==
    /\ posted # <<>> /\ Head(posted).type = "AddIssueModal.Submitted"
    /\ \E S \in {AddIssueStore(Store,
                    [c \in DOMAIN Head(posted).issue_data \cup {"status"} |->
                       IF c = "status" THEN "Open"
                       ELSE Head(posted).issue_data[c]], clock)} :
          Becomes(S) /\ SetupView(S, "issues", current_project_id)
    /\ posted' = Tail(posted)
    /\ Handled("on_add_issue_modal_submitted", Head(posted).issue_data,
               "information")
    /\ UNCHANGED <<todoVars, clock, current_view, current_project_id, screen,
                   backup>>

BuildModalCancel ==
    /\ posted = <<>>
    /\ screen.name \in {"AddProjectModal", "AddIssueModal", "SearchModal"}
    /\ screen' = MainScreen
    /\ Handled("action_cancel", <<>>, NULL)
    /\ UNCHANGED <<todoVars, buildVars, clock, current_view,
                   current_project_id, table, cursor_row, posted, backup>>

\* action_delete: delete_project or delete_issue of the row under the
\* cursor, the view set up again when the row existed.
action_delete ==
    /\ BuildAppIdle
    /\ IF cursor_row >= Len(table)
       THEN /\ UNCHANGED <<buildVars, table, cursor_row>>
            /\ Handled("action_delete", <<>>, "error")
       ELSE \E r \in {IF current_view = "projects"
                      THEN DeleteProjectStore(Store, CursorId)
                      ELSE DeleteIssueStore(Store, CursorId)} :
              /\ Becomes(r.store)
              /\ IF r.ret
                 THEN /\ SetupView(r.store, current_view, current_project_id)
                      /\ Handled("action_delete", [item_id |-> CursorId],
                                 "information")
                 ELSE /\ UNCHANGED <<table, cursor_row>>
                      /\ Handled("action_delete", [item_id |-> CursorId], NULL)
    /\ UNCHANGED <<todoVars, clock, current_view, current_project_id, screen,
                   posted, backup>>

\* A plausible slip: only an active project is completed, any other is made
\* active.
ToggledStatusFromActive(view, current_status) ==
    IF view = "projects"
    THEN (IF current_status = "Active" THEN "Completed" ELSE "Active")
    ELSE (IF current_status # "Done" THEN "Done" ELSE "Open")

\* new_status = "Completed" if current_status != "Completed" else "Active"
\* (projects); "Done" if current_status != "Done" else "Open" (issues).
ToggledStatus(view, current_status) ==
    IF view = "projects"
    THEN (IF current_status # "Completed" THEN "Completed" ELSE "Active")
    ELSE (IF current_status # "Done" THEN "Done" ELSE "Open")

\* action_toggle_status: the status cell of the row under the cursor decides
\* the new status, written with update_project / update_issue.
action_toggle_status ==
    /\ BuildAppIdle
    /\ IF cursor_row >= Len(table)
       THEN /\ UNCHANGED <<buildVars, table, cursor_row>>
            /\ Handled("action_toggle_status", <<>>, "error")
       ELSE \E r \in {IF current_view = "projects"
                      THEN UpdateProjectStore(Store, CursorId,
                              [status |->
                                 ToggledStatus(current_view,
                                               table[cursor_row + 1].status)],
                              clock)
                      ELSE UpdateIssueStore(Store, CursorId,
                              [status |->
                                 ToggledStatus(current_view,
                                               table[cursor_row + 1].status)])} :
              /\ Becomes(r.store)
              /\ IF r.ret
                 THEN /\ SetupView(r.store, current_view, current_project_id)
                      /\ Handled("action_toggle_status",
                                 [item_id |-> CursorId], "information")
                 ELSE /\ UNCHANGED <<table, cursor_row>>
                      /\ Handled("action_toggle_status",
                                 [item_id |-> CursorId], NULL)
    /\ UNCHANGED <<todoVars, clock, current_view, current_project_id, screen,
                   posted, backup>>

\* Most rows of a store that is exported.
MaxBackupRows == 1

\* action_export: json.dump of export_data() to ~/buildit_backup.json.
action_export ==
    /\ BuildAppIdle
    /\ Cardinality(projects) + Cardinality(issues) <= MaxBackupRows
    /\ backup' = [exists |-> TRUE, data |-> export_data(Store)]
    /\ Handled("action_export", <<>>, "information")
    /\ UNCHANGED <<todoVars, buildVars, clock, current_view,
                   current_project_id, table, cursor_row, screen, posted>>

\* action_import: without the file a notification; else import_data of the
\* file's document and, when it succeeded, the current view set up again.
action_import ==
    /\ BuildAppIdle
    /\ IF ~backup.exists
       THEN /\ UNCHANGED <<buildVars, table, cursor_row>>
            /\ Handled("action_import", <<>>, "error")
       ELSE \E r \in {ImportDataTxn(Store, backup.data)} :
              /\ \A t \in Tables : r.store.seq[t] <= MaxId
              /\ Becomes(r.store)
              /\ IF r.ret
                 THEN /\ SetupView(r.store, current_view, current_project_id)
                      /\ Handled("action_import", [data |-> backup.data],
                                 "information")
                 ELSE /\ UNCHANGED <<table, cursor_row>>
                      /\ Handled("action_import", [data |-> backup.data],
                                 "error")
    /\ UNCHANGED <<todoVars, clock, current_view, current_project_id, screen,
                   posted, backup>>

BuildCursor(name, row) ==
    /\ BuildAppIdle
    /\ cursor_row' = row
    /\ Handled(name, <<>>, NULL)
    /\ UNCHANGED <<todoVars, buildVars, clock, current_view,
                   current_project_id, table, screen, posted, backup>>

build_action_cursor_up ==
    BuildCursor("action_cursor_up", CursorUp(cursor_row, Len(table)))

build_action_cursor_down ==
    BuildCursor("action_cursor_down", CursorDown(cursor_row, Len(table)))

action_search ==
    /\ BuildAppIdle
    /\ screen' = [name |-> "SearchModal"]
    /\ Handled("action_search", <<>>, NULL)
    /\ UNCHANGED <<todoVars, buildVars, clock, current_view,
                   current_project_id, table, cursor_row, posted, backup>>

\* str.lower()
LowerStr(cs) == [k \in 1..Len(cs) |-> Lower(cs[k])]

\* q in t, for strs as character sequences.
In(q, t) == \E k \in 0..(Len(t) - Len(q)) : SubSeq(t, k + 1, k + Len(q)) = q

\* search_term in (value or "").lower()
InLowered(search_term, value) ==
    In(search_term, IF value = NULL THEN <<>> ELSE LowerStr(Chars(value)))

ProjectMatches(search_term, project) ==
    \/ InLowered(search_term, project.name)
    \/ InLowered(search_term, project.description)

IssueMatches(search_term, issue) ==
    \/ InLowered(search_term, issue.title)
    \/ InLowered(search_term, issue.description)
    \/ InLowered(search_term, issue.assigned_to)
    \/ InLowered(search_term, issue.type)

\* A plausible slip: the early return on an empty search term is missing.
UpdateResultsNoEarlyReturn(search_term, rows, view) ==
    LET term == LowerStr(Chars(search_term))
        Keep(r) == IF view = "projects" THEN ProjectMatches(term, r)
                   ELSE IssueMatches(term, r)
    IN  SelectSeq(rows, Keep)

\* SearchModal._update_results: the rows added to #search-results, out of
\* the rows get_projects() / get_issues(current_project_id) returned.
UpdateResults(search_term, rows, view) ==
    LET term == LowerStr(Chars(search_term))
        Keep(r) == IF view = "projects" THEN ProjectMatches(term, r)
                   ELSE IssueMatches(term, r)
    IN  IF search_term = "" THEN <<>> ELSE SelectSeq(rows, Keep)

SearchTerms == {"", "P", "q", "i", "T", "sk", "b"}

\* on_input_changed of the search modal.
SearchModalInputChanged(search_term) ==
    /\ screen.name = "SearchModal" /\ posted = <<>>
    /\ \E rows \in (IF current_view = "projects"
                    THEN GetProjectsResults(projects)
                    ELSE GetIssuesResults(issues, current_project_id)) :
          ret' = UpdateResults(search_term, rows, current_view)
    /\ op' = "SearchModal._update_results"
    /\ arg' = [search_term |-> search_term]
    /\ exc' = "none"
    /\ UNCHANGED <<todoVars, buildVars, clock, pre, appVars>>

\* BuildApp.__init__ and on_mount on a new store, no backup file yet.
InitBuildApp ==
    /\ todos = {} /\ todoSeq = 0
    /\ projects = {} /\ issues = {} /\ comments = {} /\ tags = {}
    /\ seq = [projects |-> 0, issues |-> 0, comments |-> 0, tags |-> 0]
    /\ clock = 0
    /\ op = "init" /\ arg = <<>> /\ ret = NULL /\ exc = "none" /\ pre = {}
    /\ current_view = "projects" /\ current_project_id = NoId
    /\ table = <<>> /\ cursor_row = 0 /\ screen = MainScreen
    /\ posted = <<>> /\ backup = [exists |-> FALSE]

NextBuildApp ==
    \/ action_switch_view
    \/ action_add_project
    \/ \E f \in ProjectFormInputs : AddProjectModalSubmit(f)
    \/ on_add_project_modal_submitted
    \/ action_add_issue
    \/ \E f \in IssueFormInputs : AddIssueModalSubmit(f)
    \/ on_add_issue_modal_submitted
    \/ BuildModalCancel
    \/ action_delete
    \/ action_toggle_status
    \/ action_export
    \/ action_import
    \/ build_action_cursor_up
    \/ build_action_cursor_down

SpecBuildApp == InitBuildApp /\ [][NextBuildApp]_vars

\* The search modal, on stores the forms fill.
NextBuildSearch ==
    \/ action_switch_view
    \/ action_add_project
    \/ \E f \in ProjectFormInputs : AddProjectModalSubmit(f)
    \/ on_add_project_modal_submitted
    \/ action_add_issue
    \/ \E f \in IssueFormInputs : AddIssueModalSubmit(f)
    \/ on_add_issue_modal_submitted
    \/ BuildModalCancel
    \/ build_action_cursor_down
    \/ action_search
    \/ \E q \in SearchTerms : SearchModalInputChanged(q)

SpecBuildSearch == InitBuildApp /\ [][NextBuildSearch]_vars

\* The add-project form with the status option the toggle never writes.
ProjectStatusInputs ==
    { [name |-> "p", description |-> "", version |-> "", status |-> st] :
        st \in {"On Hold"} }

\* The views of the tracker: projects are added, drilled into and out of,
\* given issues and deleted.
NextBuildView ==
    \/ action_switch_view
    \/ action_add_project
    \/ \E f \in ProjectFormInputs : AddProjectModalSubmit(f)
    \/ on_add_project_modal_submitted
    \/ action_add_issue
    \/ \E f \in IssueFormInputs : AddIssueModalSubmit(f)
    \/ on_add_issue_modal_submitted
    \/ BuildModalCancel
    \/ action_delete
    \/ build_action_cursor_down

SpecBuildView == InitBuildApp /\ [][NextBuildView]_vars

\* The status toggle: projects of any status and their issues are added and
\* toggled.
NextBuildToggle ==
    \/ action_switch_view
    \/ action_add_project
    \/ \E f \in ProjectStatusInputs : AddProjectModalSubmit(f)
    \/ on_add_project_modal_submitted
    \/ action_add_issue
    \/ \E f \in IssueFormInputs : AddIssueModalSubmit(f)
    \/ on_add_issue_modal_submitted
    \/ action_toggle_status

SpecBuildToggle == InitBuildApp /\ [][NextBuildToggle]_vars

\* The list views of both applications: either application is started, and
\* its list is added to, deleted from, toggled and walked with the cursor.
InitLists == InitTodoApp \/ InitBuildApp

NextLists ==
    \/ action_add_todo
    \/ TodoModalCancel
    \/ \E f \in FormInputs : AddTodoModalSubmit(f)
    \/ on_add_todo_modal_submitted
    \/ action_toggle_todo
    \/ action_delete_todo
    \/ todo_action_cursor_up
    \/ todo_action_cursor_down
    \/ action_cursor_home
    \/ action_cursor_end
    \/ action_switch_view
    \/ action_add_project
    \/ \E f \in ProjectFormInputs : AddProjectModalSubmit(f)
    \/ on_add_project_modal_submitted
    \/ action_add_issue
    \/ \E f \in IssueFormInputs : AddIssueModalSubmit(f)
    \/ on_add_issue_modal_submitted
    \/ BuildModalCancel
    \/ action_delete
    \/ action_toggle_status
    \/ build_action_cursor_up
    \/ build_action_cursor_down

SpecLists == InitLists /\ [][NextLists]_vars

\* --------------------------------------------------------- TodoApp claims
\* Form inputs with a blank title, a priority that is no integer or a
\* priority outside 0..5.
C14_Rejected(f) ==
    f.title \in {"", " "} \/ f.priority \in {"6", "-1", "x"}

\* The priority the other form inputs stand for (none typed: 0).
C14_Priority(f) == IF f.priority = "5" THEN 5 ELSE 0

\* C14: a submission of the add or edit form with a blank title, a
\* non-integer priority or a priority outside 0..5 posts no message, leaves
\* the form open and the store unchanged; any other submission posts the
\* message with that priority and closes the form, and handling the add
\* form's message adds exactly one todo, with that priority, which the
\* refreshed list shows once.
C14_FormValidation ==
    [][ /\ \A m \in {"AddTodoModal", "ViewEditTodoModal"} :
              (op' = m \o "._submit_form") =>
                  IF C14_Rejected(arg')
                  THEN /\ posted' = <<>>
                       /\ screen' = screen /\ screen'.name = m
                       /\ todos' = todos /\ todoSeq' = todoSeq
                  ELSE /\ Len(posted') = 1
                       /\ posted'[1].type =
                             (IF m = "AddTodoModal" THEN m \o ".Submitted"
                              ELSE m \o ".TodoUpdated")
                       /\ posted'[1].todo_data.priority = C14_Priority(arg')
                       /\ posted'[1].todo_data.title = "a"
                       /\ screen' = MainScreen
                       /\ todos' = todos
        /\ (op' = "on_add_todo_modal_submitted") =>
              /\ todos \subseteq todos'
              /\ Cardinality(todos' \ todos) = 1
              /\ \A r \in todos' \ todos :
                    /\ r.priority = posted[1].todo_data.priority
                    /\ r.priority \in 0..5
                    /\ Cardinality({k \in 1..Len(table') : table'[k] = r}) = 1
      ]_vars

\* C14 witness: the add form, opened on a store that holds a todo, was
\* submitted with priority 6 and is still open.
C14_Witness ==
    /\ op = "AddTodoModal._submit_form" /\ arg.priority = "6"
    /\ screen.name = "AddTodoModal" /\ todos # {}

\* C15: every stored todo has a priority in 0..5 and a non-empty title.
C15_StoredTodosValid ==
    current_view = "todos" =>
        \A r \in todos : r.priority \in 0..5 /\ r.title # ""

\* -------------------------------------------------------- BuildApp claims
\* The lower-cased q occurs in the lower-cased text v.
C12_Occurs(q, v) == v # NULL /\ ContainsCI(Chars(v), Chars(q))

\* The records the search of q is to list in the current view.
C12_Expected(q) ==
    IF current_view = "projects"
    THEN {r \in projects : C12_Occurs(q, r.name) \/ C12_Occurs(q, r.description)}
    ELSE {r \in issues :
            /\ r.project_id = current_project_id
            /\ \/ C12_Occurs(q, r.title) \/ C12_Occurs(q, r.description)
               \/ C12_Occurs(q, r.assigned_to) \/ C12_Occurs(q, r.type)}

\* C12: the search modal lists nothing for the empty query; for any other
\* query it lists, once each, exactly the projects whose name or description
\* and, in the issues view, the issues of the current project whose title,
\* description, assigned_to or type contains the query, case ignored.
C12_UiSearch ==
    (op = "SearchModal._update_results") =>
        IF arg.search_term = "" THEN ret = <<>>
        ELSE /\ SeqRange(ret) = C12_Expected(arg.search_term)
             /\ Len(ret) = Cardinality(C12_Expected(arg.search_term))

\* C12 witness: in the issues view the query T found an issue by its type
\* Task while another project had issues too.
C12_Witness ==
    /\ op = "SearchModal._update_results" /\ arg.search_term = "T"
    /\ current_view = "issues" /\ Len(ret) >= 1
    /\ \E i \in issues : i.project_id # current_project_id

\* C13: whenever the application inserts an issue, a project with the
\* issue's project_id is in the store: the issue the add-issue form adds, and
\* the issues an import inserts.
C13_IssueProjectExists ==
    /\ (op = "on_add_issue_modal_submitted") =>
          arg.project_id \in RowIds(projects)
    /\ (op = "action_import" /\ ret = "information") =>
          \A i \in issues : i.project_id \in RowIds(projects)

\* The rows of the list the table shows.
C20_ListRows ==
    CASE current_view = "todos"    -> todos
      [] current_view = "projects" -> projects
      [] current_view = "issues"   ->
            get_issues_rows(issues, current_project_id)

\* C20: with the application idle, the table shows the rows of the list and,
\* when it has rows, the cursor is on one of them; cursor-down on the last
\* row and cursor-up on the first row leave the cursor where it is, any
\* other cursor-down or cursor-up moves it by exactly one row.
C20_CursorInRange ==
    /\ [](posted = <<>> =>
            /\ SeqRange(table) = C20_ListRows
            /\ Len(table) = Cardinality(C20_ListRows)
            /\ Len(table) > 0 => cursor_row \in 0..(Len(table) - 1))
    /\ [][ /\ (op' = "action_cursor_down" /\ Len(table) > 0) =>
                 cursor_row' = IF cursor_row = Len(table) - 1 THEN cursor_row
                               ELSE cursor_row + 1
           /\ (op' = "action_cursor_up" /\ Len(table) > 0) =>
                 cursor_row' = IF cursor_row = 0 THEN cursor_row
                               ELSE cursor_row - 1
           /\ (op' = "action_cursor_home" /\ Len(table) > 0) =>
                 cursor_row' = 0
           /\ (op' = "action_cursor_end" /\ Len(table) > 0) =>
                 cursor_row' = Len(table) - 1
           /\ (op' \in {"action_cursor_down", "action_cursor_up",
                        "action_cursor_home", "action_cursor_end"}) =>
                 table' = table
         ]_vars

\* C20 witness: cursor-down was pressed and the cursor is on the last row of
\* a list of two or more issues in the project tracker.
C20_Witness ==
    /\ op = "action_cursor_down" /\ current_view = "issues"
    /\ Len(table) >= 2 /\ cursor_row = Len(table) - 1

\* ============================================================= dashboard
\* Timestamps count seconds; time 0 is a midnight UTC.
SecondsPerDay == 24 * 3600

\* SQLite's date(t) and datetime.date(): the calendar day of a timestamp, in
\* the zone the timestamp is written in.
DateOf(t) == t \div SecondsPerDay

\* Offsets of the local zone of the dashboard's process from UTC.
TzOffsets == {0, 12 * 3600, 0 - 12 * 3600}

\* Last day the clock reaches.
MaxDays == 7

\* Time passes between two uses of the tools: three and a half days.
Elapsed == {84 * 3600}

Elapse ==
    /\ \E d \in Elapsed :
          /\ clock + d <= MaxDays * SecondsPerDay
          /\ clock' = clock + d
    /\ UNCHANGED <<todoVars, buildVars, op, arg, ret, exc, pre, appVars>>

\* dates = [(today - timedelta(days=i)).isoformat() for i in range(6, -1, -1)]
Dates(today) == [k \in 1..7 |-> today - (7 - k)]

\* SELECT date(c), COUNT(*) ... WHERE date(c) >= date('now', '-7 days')
\* GROUP BY date(c), as the dict built from it; days are the created days of
\* the rows and utcnow the time 'now' stands for.
ActivityByDay(days, utcnow) ==
    [d \in {x \in SeqRange(days) : x >= DateOf(utcnow) - 7} |->
        Cardinality({i \in 1..Len(days) : days[i] = d})]

\* [activity.get(date, 0) for date in dates]
ZeroFilled(activity, dates) ==
    [k \in 1..Len(dates) |->
        IF dates[k] \in DOMAIN activity THEN activity[dates[k]] ELSE 0]

\* TodoStats._get_daily_activity: created_at is CURRENT_TIMESTAMP, a UTC
\* time; today is datetime.now().date(), a day of the local zone.
TodoDailyActivity(T, utcnow, tz) ==
    LET rows == ByRowid(T)
        days == [i \in 1..Len(rows) |-> DateOf(rows[i].created_at)]
    IN  ZeroFilled(ActivityByDay(days, utcnow), Dates(DateOf(utcnow + tz)))

\* SELECT COUNT(*) FROM todos [WHERE completed = 1 | WHERE priority >= 2]
get_total_tasks(T) == Cardinality(T)
get_completed_tasks(T) == Cardinality({t \in T : t.completed = 1})
get_high_priority(T) == Cardinality({t \in T : t.priority >= 2})

\* A plausible slip: the division is not guarded.
RateUnguarded(n, total) == [num |-> n * 100, den |-> total]

\* (n / total * 100) if total > 0 else 0, as the fraction num / den.
Rate(n, total) ==
    IF total > 0 THEN [num |-> n * 100, den |-> total]
    ELSE [num |-> 0, den |-> 1]

\* TodoStats.refresh_data: the values and progress of the cards and the data
\* of the sparkline. The todos here have no due date, so the due-today card
\* stays at 0 and the log reads "No upcoming tasks".
TodoStatsRefreshData(tz) ==
    /\ ret' = [total |-> get_total_tasks(todos),
               completed |-> get_completed_tasks(todos),
               high_priority |-> get_high_priority(todos),
               completion_rate |->
                   Rate(get_completed_tasks(todos), get_total_tasks(todos)),
               priority_rate |->
                   Rate(get_high_priority(todos), get_total_tasks(todos)),
               activity |-> TodoDailyActivity(todos, clock, tz)]
    /\ op' = "TodoStats.refresh_data" /\ arg' = [now |-> clock, tz |-> tz]
    /\ exc' = "none" /\ pre' = todos
    /\ UNCHANGED <<todoVars, buildVars, clock, appVars>>

\* add_todo(title) with the defaults, and with a priority.
DashTodoArgs ==
    { [title |-> "a", description |-> "", due_date |-> NULL, priority |-> p] :
        p \in {0, 3} }

NextTodoDash ==
    \/ \E a \in DashTodoArgs : AddTodo(a)
    \/ \E id \in Ids : ToggleTodo(id)
    \/ \E id \in Ids : DeleteTodo(id)
    \/ Elapse
    \/ \E tz \in TzOffsets : TodoStatsRefreshData(tz)

SpecTodoDash == InitTodo /\ [][NextTodoDash]_vars

\* update_issue(issue_id, status=...), as the tracker's status toggle calls it.
UpdateIssue(issue_id, kwargs) ==
    /\ \E r \in {UpdateIssueStore(Store, issue_id, kwargs)} :
          /\ Becomes(r.store)
          /\ ret' = r.ret
    /\ op' = "update_issue"
    /\ arg' = [issue_id |-> issue_id, kwargs |-> kwargs]
    /\ exc' = "none" /\ pre' = Store
    /\ UNCHANGED <<todoVars, clock, appVars>>

\* delete_issue(issue_id) called on the store.
DeleteIssue(issue_id) ==
    /\ \E r \in {DeleteIssueStore(Store, issue_id)} :
          /\ Becomes(r.store)
          /\ ret' = r.ret
    /\ op' = "delete_issue" /\ arg' = [issue_id |-> issue_id]
    /\ exc' = "none" /\ pre' = Store
    /\ UNCHANGED <<todoVars, clock, appVars>>

\* Projects, issues and comments under add and delete_issue.
NextBuildIssues ==
    \/ \E a \in ProjectArgs : AddProject(a)
    \/ \E a \in IssueArgs : AddIssue(a)
    \/ \E a \in CommentArgs : AddComment(a)
    \/ \E id \in Ids : DeleteIssue(id)

SpecBuildIssues == InitBuild /\ [][NextBuildIssues]_vars

\* Keyword arguments of update_issue, inside and outside valid_fields.
IssueKwargs ==
    { [status |-> "Done"],
      [title |-> "j", tags |-> <<"t">>],
      [project_id |-> MaxId],
      [id |-> MaxId, created_date |-> MaxClock, priority |-> 5],
      [bogus |-> 1] }

\* Issues under add_issue and update_issue.
NextBuildUpdate ==
    \/ \E a \in IssueArgs : AddIssue(a)
    \/ \E id \in Ids : \E kwargs \in IssueKwargs : UpdateIssue(id, kwargs)

SpecBuildUpdate == InitBuild /\ [][NextBuildUpdate]_vars

\* update_project(project_id, ...) called on the store at time clock.
UpdateProject(project_id, kw) ==
    /\ \E r \in {UpdateProjectStore(Store, project_id, kw, clock)} :
          /\ Becomes(r.store)
          /\ ret' = r.ret
    /\ op' = "update_project"
    /\ arg' = [project_id |-> project_id, kw |-> kw, now |-> clock]
    /\ exc' = "none" /\ pre' = Store
    /\ UNCHANGED <<todoVars, clock, appVars>>

\* The arguments of update_project that are not None.
ProjectKwargs == { [status |-> "Completed"], [name |-> "q", version |-> "2"] }

\* get_projects() called on the store.
GetProjects ==
    /\ \E s \in GetProjectsResults(projects) : ret' = s
    /\ op' = "get_projects" /\ arg' = <<>> /\ exc' = "none" /\ pre' = Store
    /\ UNCHANGED <<todoVars, buildVars, clock, appVars>>

\* Projects created, updated and listed while time passes.
NextBuildDates ==
    \/ \E a \in ProjectArgs : AddProject(a)
    \/ \E id \in Ids : \E kw \in ProjectKwargs : UpdateProject(id, kw)
    \/ GetProjects
    \/ Tick

SpecBuildDates == InitBuild /\ [][NextBuildDates]_vars

\* Every mutator of the project store but import, add_issue called for
\* stored projects and add_comment for stored issues only.
NextBuildOwned ==
    \/ \E a \in ProjectArgs : AddProject(a)
    \/ \E a \in IssueArgs : a.project_id \in RowIds(projects) /\ AddIssue(a)
    \/ \E a \in CommentArgs : a.issue_id \in RowIds(issues) /\ AddComment(a)
    \/ \E id \in Ids : UpdateProject(id, [status |-> "Completed"])
    \/ \E id \in Ids : UpdateIssue(id, [project_id |-> MaxId])
    \/ \E id \in Ids : DeleteProject(id)
    \/ \E id \in Ids : DeleteIssue(id)

SpecBuildOwned == InitBuild /\ [][NextBuildOwned]_vars

\* Rows added, deleted and imported while time passes.
NextBuildIds ==
    \/ \E a \in ProjectArgs : AddProject(a)
    \/ \E a \in CommentArgs : AddComment(a)
    \/ \E id \in Ids : DeleteProject(id)
    \/ \E data \in BuildDocs(Store) : ImportData(data)
    \/ Tick

SpecBuildIds == InitBuild /\ [][NextBuildIds]_vars

\* SQL's LOWER(text).
SqlLower(s) == FromChars(LowerStr(Chars(s)))

\* ('closed', 'done', 'completed')
NotOpen == {"closed", "done", "completed"}

\* SELECT COUNT(*) FROM projects [WHERE LOWER(status) = 'active']
get_total_projects(S) == Cardinality(S.projects)
get_active_projects(S) ==
    Cardinality({p \in S.projects : SqlLower(p.status) = "active"})

\* SELECT COUNT(*) FROM issues WHERE [priority >= 2 AND]
\* LOWER(status) NOT IN ('closed', 'done', 'completed')
get_open_issues(S) ==
    Cardinality({i \in S.issues : SqlLower(i.status) \notin NotOpen})
get_critical_issues(S) ==
    Cardinality({i \in S.issues :
                    i.priority >= 2 /\ SqlLower(i.status) \notin NotOpen})

\* BuildStats._get_daily_activity: created_date is datetime.now().isoformat()
\* of the tracker, a time of the local zone (the zone of the dashboard too);
\* date('now') is a UTC day.
BuildDailyActivity(I, utcnow, tz) ==
    LET rows == ByRowid(I)
        days == [i \in 1..Len(rows) |-> DateOf(rows[i].created_date + tz)]
    IN  ZeroFilled(ActivityByDay(days, utcnow), Dates(DateOf(utcnow + tz)))

\* MAX(i.created_date) of a project without issues: NULL, which SQLite
\* sorts below every value.
NoActivity == 0 - 1

\* LIMIT 5
TopN == 5

\* One row of the project status query: project p LEFT JOINed with its
\* issues, grouped by p.id (kept in the row as the key of the group). The
\* status of an issue is compared as stored.
ProjectStatusRow(S, p) ==
    LET joined == {i \in S.issues : i.project_id = p.id}
    IN  [id |-> p.id, name |-> p.name, version |-> p.version,
         open_issues |->
             Cardinality({i \in joined : i.status \notin NotOpen}),
         critical |->
             Cardinality({i \in joined :
                             i.priority >= 2 /\ i.status \notin NotOpen}),
         last_activity |->
             IF joined = {} THEN NoActivity
             ELSE (CHOOSE i \in joined :
                      \A j \in joined : i.created_date >= j.created_date)
                  .created_date]

\* ORDER BY last_activity DESC
ActivityBefore(r, q) == r.last_activity >= q.last_activity

\* The lists the project status query may return: the active projects in an
\* order ORDER BY allows, cut after LIMIT rows.
ProjectStatusResults(S) ==
    { SubSeq(s, 1, IF Len(s) < TopN THEN Len(s) ELSE TopN) :
        s \in Orderings({ProjectStatusRow(S, p) :
                            p \in {q \in S.projects :
                                      SqlLower(q.status) = "active"}},
                        ActivityBefore) }

\* The lines of the log written for the rows: datetime.strptime(
\* last_activity, "%Y-%m-%d") raises ValueError on the first row that has a
\* last_activity, a timestamp with a time of day, and the loop ends there.
RECURSIVE LogLines(_)
LogLines(rows) ==
    IF rows = <<>> \/ Head(rows).last_activity # NoActivity THEN <<>>
    ELSE <<Head(rows)>> \o LogLines(Tail(rows))

\* BuildStats.refresh_data: the values and progress of the cards, the data
\* of the sparkline, the rows of the project status query and the lines of
\* the log; the exception of the loop is caught and printed.
BuildStatsRefreshData(tz) ==
    /\ \E rows \in ProjectStatusResults(Store) :
          /\ ret' = [total_projects |-> get_total_projects(Store),
                     active_projects |-> get_active_projects(Store),
                     open_issues |-> get_open_issues(Store),
                     critical_issues |-> get_critical_issues(Store),
                     active_rate |-> Rate(get_active_projects(Store),
                                          get_total_projects(Store)),
                     critical_rate |-> Rate(get_critical_issues(Store),
                                            get_open_issues(Store)),
                     activity |-> BuildDailyActivity(issues, clock, tz),
                     projects |-> rows,
                     log |-> LogLines(rows)]
          /\ exc' = IF Len(LogLines(rows)) < Len(rows)
                    THEN "ValueError (printed)" ELSE "none"
    /\ op' = "BuildStats.refresh_data" /\ arg' = [now |-> clock, tz |-> tz]
    /\ pre' = Store
    /\ UNCHANGED <<todoVars, buildVars, clock, appVars>>

\* add_project(name, status=...) and add_issue(project_id, type, title,
\* priority=...) as the tracker's forms call them.
DashProjectArgs ==
    { [name |-> "p", description |-> "", version |-> "0.1.0", status |-> st] :
        st \in {"Active", "Completed"} }

DashIssueArgs ==
    { [project_id |-> p, type |-> "Task", title |-> "i", description |-> "",
       priority |-> pr, status |-> "Open", assigned_to |-> "",
       due_date |-> NULL, tags |-> "[]"] : p \in Ids, pr \in {1, 5} }

\* The tracker fills the store, seconds apart, and the dashboard (its zone
\* UTC) is refreshed.
NextBuildDash ==
    \/ \E a \in DashProjectArgs : AddProject(a)
    \/ \E a \in DashIssueArgs : AddIssue(a)
    \/ \E id \in Ids, st \in {"Done", "Open"} :
          UpdateIssue(id, [status |-> st])
    \/ Tick
    \/ BuildStatsRefreshData(0)

SpecBuildDash == InitBuild /\ [][NextBuildDash]_vars

\* Issues are added days apart, and the dashboard is refreshed in any zone.
NextBuildActivity ==
    \/ \E a \in IssueArgs : AddIssue(a)
    \/ Elapse
    \/ \E tz \in TzOffsets : BuildStatsRefreshData(tz)

SpecBuildActivity == InitBuild /\ [][NextBuildActivity]_vars

\* ------------------------------------------------------ dashboard claims
\* C16: the completion rate the dashboard shows is completed / total x 100
\* when there are todos and 0 when there are none, with completed the number
\* of todos whose completed flag is set; completed <= total, so the rate is
\* between 0 and 100.
C16_CompletionRate ==
    (op = "TodoStats.refresh_data") =>
        LET total == Cardinality(todos)
            completed == Cardinality({t \in todos : t.completed # 0})
            rate == ret.completion_rate
        IN  /\ ret.total = total /\ ret.completed = completed
            /\ completed <= total
            /\ rate.den > 0
            /\ total > 0 => rate.num * total = completed * 100 * rate.den
            /\ total = 0 => rate.num = 0
            /\ 0 <= rate.num /\ rate.num <= 100 * rate.den

\* C16 witness: the dashboard shows the rate of a store of two todos, one of
\* them completed.
C16_Witness ==
    /\ op = "TodoStats.refresh_data"
    /\ ret.total = 2 /\ ret.completed = 1
    /\ ret.completion_rate = [num |-> 100, den |-> 2]

\* C16 witness of the guard: the dashboard shows rate 0 for the empty store.
C16_WitnessEmpty ==
    /\ op = "TodoStats.refresh_data" /\ todos = {}
    /\ ret.completion_rate.num = 0

\* C19: the 7-day histogram has 7 entries, oldest day first; entry k
\* (k = 0..6) is the number of records created on day today - 6 + k of the
\* calendar today is taken from, so that older records are in no entry.
C19_DailyActivity ==
    (op \in {"TodoStats.refresh_data", "BuildStats.refresh_data"}) =>
        LET today == DateOf(arg.now + arg.tz)
            created ==
                IF op = "TodoStats.refresh_data"
                THEN [i \in 1..Cardinality(todos) |->
                         ByRowid(todos)[i].created_at + arg.tz]
                ELSE [i \in 1..Cardinality(issues) |->
                         ByRowid(issues)[i].created_date + arg.tz]
        IN  /\ Len(ret.activity) = 7
            /\ \A k \in 0..6 :
                  ret.activity[k + 1] =
                      Cardinality({i \in 1..Len(created) :
                                      DateOf(created[i]) = today - 6 + k})

\* C19 witness of the zero fill: a todo created three and a half days
\* before the refresh is counted in the fourth entry and nowhere else.
C19_Witness ==
    /\ op = "TodoStats.refresh_data" /\ arg.tz = 0
    /\ ret.activity = <<0, 0, 0, 1, 0, 0, 0>>

\* C17: an issue is open exactly when its status, in any case, is none of
\* closed, done, completed, and critical exactly when it is open with
\* priority >= 2, in the counts of the cards and in the counts of every row
\* of the per-project breakdown alike.
C17_OpenCritical ==
    (op = "BuildStats.refresh_data") =>
        LET IsOpen(i) == SqlLower(i.status) \notin {"closed", "done", "completed"}
            IsCritical(i) == IsOpen(i) /\ i.priority >= 2
            Of(id) == {i \in issues : i.project_id = id}
        IN  /\ ret.open_issues = Cardinality({i \in issues : IsOpen(i)})
            /\ ret.critical_issues =
                   Cardinality({i \in issues : IsCritical(i)})
            /\ \A k \in 1..Len(ret.projects) :
                  /\ ret.projects[k].open_issues =
                         Cardinality({i \in Of(ret.projects[k].id) : IsOpen(i)})
                  /\ ret.projects[k].critical =
                         Cardinality({i \in Of(ret.projects[k].id) :
                                         IsCritical(i)})

\* C18: the per-project breakdown has at most 5 rows, all of active projects
\* (status compared in any case), the project with the later latest issue
\* first and, of two projects with the same latest issue time, the one with
\* more critical issues first.
C18_TopProjects ==
    (op = "BuildStats.refresh_data") =>
        LET rows == ret.projects
            Of(id) == {i \in issues : i.project_id = id}
            Latest(id) ==
                IF Of(id) = {} THEN NoActivity
                ELSE CHOOSE t \in {i.created_date : i \in Of(id)} :
                        \A i \in Of(id) : t >= i.created_date
        IN  /\ Len(rows) <= 5
            /\ \A k \in 1..Len(rows) :
                  \E p \in projects :
                     p.id = rows[k].id /\ SqlLower(p.status) = "active"
            /\ \A j, k \in 1..Len(rows) :
                  j < k =>
                     \/ Latest(rows[j].id) > Latest(rows[k].id)
                     \/ /\ Latest(rows[j].id) = Latest(rows[k].id)
                        /\ rows[j].critical >= rows[k].critical

\* --------------------------------------------------- tracker view claims
\* C21: switch-view from the projects view drills in only with a project
\* row under the cursor and then captures the id of that row; with no row
\* the view stays "projects" and current_project_id stays unset; switch-view
\* from the issues view returns to the projects view and clears
\* current_project_id. Nothing else changes the view.
C21_DrillInOut ==
    [][ /\ (op' = "action_switch_view" /\ current_view = "projects"
               /\ cursor_row < Len(table)) =>
              /\ current_view' = "issues"
              /\ current_project_id' = table[cursor_row + 1].id
        /\ (op' = "action_switch_view" /\ current_view = "projects"
               /\ cursor_row >= Len(table)) =>
              /\ current_view' = "projects"
              /\ current_project_id' = NoId
        /\ (op' = "action_switch_view" /\ current_view = "issues") =>
              /\ current_view' = "projects"
              /\ current_project_id' = NoId
              /\ SeqRange(table') = projects
        /\ (current_view' # current_view) => op' = "action_switch_view"
      ]_vars

\* C21 witness: with the cursor moved to the second project row, switch-view
\* has drilled into that project.
C21_Witness ==
    /\ op = "action_switch_view" /\ current_view = "issues"
    /\ Cardinality(projects) = 2 /\ current_project_id = 2

\* C25: the view is "issues" exactly when current_project_id is set; the
\* add-issue form opens only with a project id, which it takes over.
C25_ViewIffProject ==
    /\ []((current_view = "issues") <=> (current_project_id # NoId))
    /\ [][ (op' = "action_add_issue" /\ screen'.name = "AddIssueModal") =>
              /\ current_project_id # NoId
              /\ screen'.project_id = current_project_id
         ]_vars

\* C25 witness: after a drill-in and a drill-out the add-issue form is
\* refused in the projects view, no project id being set.
C25_Witness ==
    /\ op = "action_add_issue" /\ ret = "error"
    /\ current_view = "projects" /\ current_project_id = NoId
    /\ issues # {}

\* C29: the status toggle makes a project "Completed" unless it is
\* "Completed", and then "Active" (an issue "Done" unless it is "Done", and
\* then "Open"), and leaves the other rows alone; so a toggled project is
\* "Active" or "Completed", no project ever becomes "On Hold", and two
\* toggles restore the status exactly when it was "Active" or "Completed".
C29_ToggleStatus ==
    [][ /\ (op' = "action_toggle_status" /\ cursor_row < Len(table)
               /\ current_view = "projects") =>
              LET id == table[cursor_row + 1].id
                  old == RowOf(projects, id).status
              IN  /\ RowOf(projects', id).status =
                         IF old = "Completed" THEN "Active" ELSE "Completed"
                  /\ RowOf(projects', id).status \in {"Active", "Completed"}
                  /\ {q \in projects' : q.id # id} =
                         {q \in projects : q.id # id}
                  /\ issues' = issues
        /\ (op' = "action_toggle_status" /\ cursor_row < Len(table)
               /\ current_view = "issues") =>
              LET id == table[cursor_row + 1].id
                  old == RowOf(issues, id).status
              IN  /\ RowOf(issues', id).status =
                         IF old = "Done" THEN "Open" ELSE "Done"
                  /\ {q \in issues' : q.id # id} = {q \in issues : q.id # id}
                  /\ projects' = projects
        /\ \A p \in projects, q \in projects' :
              (p.id = q.id /\ q.status = "On Hold") => p.status = "On Hold"
        /\ \A st \in {"Active", "On Hold", "Completed"} :
              (ToggledStatus("projects", ToggledStatus("projects", st)) = st)
                 <=> st \in {"Active", "Completed"}
      ]_vars

\* C29 witness: a project added as "On Hold" has been toggled twice and is
\* "Active".
C29_Witness ==
    /\ op = "action_toggle_status" /\ current_view = "projects"
    /\ \E p \in projects : p.status = "Active"
    /\ \A p \in projects : p.status # "On Hold"

\* --------------------------------------------- project store result claims
\* C22: delete_project returns True exactly when the project existed before
\* the call, and when it returns False the four tables are as before.
C22_DeleteProjectResult ==
    (op = "delete_project") =>
        /\ (ret = TRUE) <=> (arg.project_id \in RowIds(pre.projects))
        /\ (ret = FALSE) => TablesOf(Store) = TablesOf(pre)

\* C23: delete_issue(id) removes issue id and every comment whose issue_id is
\* id, returns True exactly when the issue existed, and leaves every project,
\* every other issue, every comment of another issue and every tag as it was.
C23_DeleteIssue ==
    (op = "delete_issue") =>
        /\ issues = {r \in pre.issues : r.id # arg.issue_id}
        /\ comments = {r \in pre.comments : r.issue_id # arg.issue_id}
        /\ (ret = TRUE) <=> (arg.issue_id \in RowIds(pre.issues))
        /\ projects = pre.projects /\ tags = pre.tags

\* C23 witness: the deleted issue had a comment, and another issue, with a
\* comment of its own, and a project stay.
C23_Witness ==
    /\ op = "delete_issue" /\ ret = TRUE
    /\ \E c \in pre.comments : c.issue_id = arg.issue_id
    /\ \E i \in issues : \E c \in comments : c.issue_id = i.id
    /\ projects # {}

\* C27: update_issue writes only the keyword arguments in the allow-list
\* (type, title, description, priority, status, assigned_to, due_date, tags),
\* to the row of the issue only; id, project_id, created_date and unknown
\* names are ignored.  With no allow-listed argument, or with an id that no
\* issue has, it returns False and the store is unchanged.
C27_UpdateIssueAllowList ==
    (op = "update_issue") =>
        LET kwargs == arg.kwargs
            allowed == DOMAIN kwargs \cap
                         {"type", "title", "description", "priority",
                          "status", "assigned_to", "due_date", "tags"}
            hit == arg.issue_id \in RowIds(pre.issues) /\ allowed # {}
        IN  /\ RowIds(issues) = RowIds(pre.issues)
            /\ \A r \in issues :
                  \A c \in DOMAIN r :
                     IF r.id = arg.issue_id /\ c \in allowed
                     THEN r[c] = (IF c = "tags" THEN JsonDumps(kwargs[c])
                                  ELSE kwargs[c])
                     ELSE r[c] = RowOf(pre.issues, r.id)[c]
            /\ projects = pre.projects /\ comments = pre.comments
            /\ tags = pre.tags
            /\ ret = hit
            /\ ~hit => TablesOf(Store) = TablesOf(pre)

\* C27 witness: a call with id, created_date and priority has changed the
\* priority of the issue it was called for, not of the one its id names.
C27_Witness ==
    /\ op = "update_issue" /\ ret = TRUE
    /\ {"id", "created_date"} \subseteq DOMAIN arg.kwargs
    /\ \E r \in issues : /\ r.id = arg.issue_id /\ r.id # arg.kwargs.id
                          /\ r.priority = 5
                          /\ RowOf(pre.issues, r.id).priority # 5

\* C27 witness: a call with only an unknown name, on an existing issue.
C27_WitnessNoField ==
    /\ op = "update_issue" /\ ret = FALSE
    /\ arg.issue_id \in RowIds(issues)
    /\ DOMAIN arg.kwargs = {"bogus"}

C26_NoOrphans ==
    /\ \A i \in issues : i.project_id \in RowIds(projects)
    /\ \A c \in comments : c.issue_id \in RowIds(issues)

\* C26 witness: a project with a commented issue was deleted while another
\* project keeps a commented issue.
C26_Witness ==
    /\ op = "delete_project" /\ ret = TRUE
    /\ \E i \in pre.issues :
          /\ i.project_id = arg.project_id
          /\ \E c \in pre.comments : c.issue_id = i.id
    /\ \E c \in comments : c.issue_id \in RowIds(issues)

\* ------------------------------------------------------- edit form claim
\* C28: the edit form opens with the stored title, description, due date
\* and priority of the selected todo, and submitting it as it opened posts
\* those four values for that todo and closes the form.
C28_EditFormPrefilled ==
    [][ \A style \in DueStyles :
          LET stored == RowOf(todos, CursorId)
              fields == [title |-> stored.title,
                         description |-> stored.description,
                         due_date |-> stored.due_date,
                         priority |-> stored.priority]
          IN  /\ (op' = "action_view_edit_todo") =>
                    /\ get_todo_data(cursor_row, style).priority
                           = stored.priority
                    /\ get_todo_data(cursor_row, style).title = stored.title
              /\ (/\ op' = "ViewEditTodoModal._submit_form"
                  /\ arg' = PrefilledInputs(get_todo_data(cursor_row, style)))
                    => /\ posted' = <<[type |-> "ViewEditTodoModal.TodoUpdated",
                                       todo_id |-> stored.id,
                                       todo_data |-> fields]>>
                       /\ screen' = MainScreen
      ]_vars

\* ------------------------------------------------------------- id claims
\* The AUTOINCREMENT counter of every table is at least every id in it.
IdsBelowCounters ==
    /\ \A r \in todos : r.id <= todoSeq
    /\ \A t \in {"projects", "issues", "comments"} :
          \A r \in Store[t] : r.id <= seq[t]

\* The operation that inserts into a table of the project store.
AddOp ==
    [projects |-> "add_project", issues |-> "add_issue",
     comments |-> "add_comment"]

\* The counters never go down, and an add returns
\* an id above the counter: above every id a row of the table ever had,
\* rows since deleted and rows that an import inserted or removed included.
AddReturnsFreshId ==
    /\ todoSeq' >= todoSeq
    /\ (op' = "add_todo" /\ todos' # todos) =>
          ret' > todoSeq /\ ret' \in RowIds(todos')
    /\ \A t \in {"projects", "issues", "comments"} :
          /\ seq'[t] >= seq[t]
          /\ (op' = AddOp[t] /\ Store'[t] # Store[t])
                => ret' > seq[t] /\ ret' \in RowIds(Store'[t])

\* An id that denotes a row before and after a step denotes the row created
\* at the same time: created_date (todos: created_at) is set once.
SameIdSameRecord ==
    /\ \A r \in todos : \A q \in todos' :
          q.id = r.id => q.created_at = r.created_at
    /\ \A t \in {"projects", "issues", "comments"} :
          \A r \in Store[t] : \A q \in Store'[t] :
             q.id = r.id => q.created_date = r.created_date

\* C30: ids are never reused within a table: the id add_todo, add_project,
\* add_issue or add_comment returns is greater than every id a row of the
\* table ever had, and an id never comes to denote a different record.
C30_IdsNeverReused ==
    /\ []IdsBelowCounters
    /\ [][AddReturnsFreshId /\ SameIdSameRecord]_vars

\* The part of C30 about the ids that the add operations return; it holds
\* for the project store with import_data and for the todo store.
C30_AddedIdsAreFresh == []IdsBelowCounters /\ [][AddReturnsFreshId]_vars
====
